---- MODULE Spec2Model ----
(***************************************************************************)
(* Model of the PJe TJMG downloader: the case registry                     *)
(* (src/src/pje_automation/database.py), the worker script (src/main.py),  *)
(* the API service that spawns it (src/api/services.py) and the browser    *)
(* client's acquisition steps (src/src/pje_automation/pje_client.py).      *)
(*                                                                         *)
(* Strings that the code trims or tests for emptiness are sequences of     *)
(* one-character strings, so that str.strip() is computed, not assumed.    *)
(***************************************************************************)
EXTENDS Integers, Sequences, FiniteSets, TLC

VARIABLES
    cases,      \* the rows of table `cases`, in insertion (id) order
    files,      \* the files present under storage/processos, as [dir, name]
    clock,      \* the wall clock (time.time(), datetime.now())
    frames,     \* registry callers: the call each one is executing
    runs,       \* acquire runs: service task and worker script of each
    acquired,   \* identifiers acquired successfully, no external change since
    call,       \* a call of a function of utils.py: argument and result
    hook,       \* how the webhook endpoint answers a POST at present
    store,      \* the database file: whether sqlite3 raises on it at present,
                \* and whether _database_instance of the process is set
    client      \* one PJeClient and its browser: method under way, contexts,
                \* operations performed, the exception that left a method

vars ==
    <<cases, files, clock, frames, runs, acquired, call, hook, store, client>>

(***************************************************************************)
(* Bounds                                                                  *)
(***************************************************************************)
MaxCallers == 2     \* concurrent registry callers
MaxClock == 1       \* last clock value
MaxRuns == 1        \* acquire runs
MaxSeps == 6        \* separators in an argument of parse_process_number
MaxPolls == 2       \* passes of the polling loop that fit in DOWNLOAD_TIMEOUT

(***************************************************************************)
(* Strings                                                                 *)
(***************************************************************************)
\* the identifiers the registry callers pass: empty, whitespace-only, a
\* trimmed key, the same key padded, and a second key
IdArgs == {<<>>, <<" ">>, <<"a">>, <<" ", "a">>, <<"b">>}

IsSpace(c) == c = " "

RECURSIVE LStrip(_)
LStrip(s) == IF s # <<>> /\ IsSpace(Head(s)) THEN LStrip(Tail(s)) ELSE s

RECURSIVE RStrip(_)
RStrip(s) ==
    IF s # <<>> /\ IsSpace(s[Len(s)]) THEN RStrip(SubSeq(s, 1, Len(s) - 1)) ELSE s

\* str.strip(): leading and trailing whitespace removed
Strip(s) == RStrip(LStrip(s))

\* the file names the registry callers pass
FileArgs == {<<>>, <<" ">>, <<"f">>, <<"f", " ">>}

\* the status the registry callers pass: the default of save_case_record
StatusArgs == {"completed"}

(***************************************************************************)
(* utils.parse_process_number                                              *)
(***************************************************************************)
Digits == {"0", "1", "2", "3", "4", "5", "6", "7", "8", "9"}

\* "".join(c for c in process_number if c.isdigit() or c in ".-")
CleanNumber(s) == SelectSeq(s, LAMBDA c : c \in Digits \cup {".", "-"})

\* str.split(sep): the pieces between the separators, empty pieces kept
RECURSIVE Split(_, _)
Split(s, sep) ==
    IF \E i \in DOMAIN s : s[i] = sep
    THEN LET i == CHOOSE k \in DOMAIN s :
                     /\ s[k] = sep
                     /\ \A j \in DOMAIN s : s[j] = sep => k <= j
         IN  <<SubSeq(s, 1, i - 1)>> \o Split(SubSeq(s, i + 1, Len(s)), sep)
    ELSE <<s>>

\* the outcome of a call that raised ValueError
ValueError ==
    [ok |-> FALSE, sequential |-> <<>>, digit |-> <<>>, year |-> <<>>,
     court |-> <<>>]

\* a mutation of ParseProcessNumber: the court is taken from the fourth
\* period-separated segment
ParseProcessNumberFourth(s) ==
    LET parts == Split(CleanNumber(s), "-")
    IN  IF Len(parts) # 2 THEN ValueError
        ELSE LET remaining_parts == Split(parts[2], ".")
             IN  IF Len(remaining_parts) # 5 THEN ValueError
                 ELSE [ok |-> TRUE, sequential |-> parts[1],
                       digit |-> remaining_parts[1],
                       year |-> remaining_parts[2],
                       court |-> remaining_parts[4]]

\* parse_process_number: clean, split at "-" into two, split the second at
\* "." into five, return the first, second and fifth of them
ParseProcessNumber(s) ==
    LET parts == Split(CleanNumber(s), "-")
    IN  IF Len(parts) # 2 THEN ValueError
        ELSE LET remaining_parts == Split(parts[2], ".")
             IN  IF Len(remaining_parts) # 5 THEN ValueError
                 ELSE [ok |-> TRUE, sequential |-> parts[1],
                       digit |-> remaining_parts[1],
                       year |-> remaining_parts[2],
                       court |-> remaining_parts[5]]

\* the arguments of the calls: segments joined by separators.  A segment is
\* empty, digits that tell its position, or a letter.
SegKinds == {"empty", "digits", "letters"}

SegText(kind, i) ==
    CASE kind = "empty"   -> <<>>
      [] kind = "digits"  -> <<ToString(i % 10), "0">>
      [] kind = "letters" -> <<"x">>

RECURSIVE JoinFrom(_, _, _)
JoinFrom(segs, seps, i) ==
    IF i > Len(seps) THEN SegText(segs[i], i)
    ELSE SegText(segs[i], i) \o <<seps[i]>> \o JoinFrom(segs, seps, i + 1)

\* the separators of NNNNNNN-DD.YYYY.J.TR.OOOO
CanonicalSeps == <<"-", ".", ".", ".", ".">>

NoCall ==
    [fn |-> "none", segs |-> <<>>, seps |-> <<>>, arg |-> <<>>,
     pc |-> "none", out |-> ValueError]

\* a caller calls parse_process_number with segments g joined by separators p
ParseCall ==
    /\ call.pc = "none"
    /\ \E n \in 0..MaxSeps :
          \E g \in [1..(n + 1) -> SegKinds], p \in [1..n -> {"-", "."}] :
             call' = [fn |-> "parse_process_number", segs |-> g, seps |-> p,
                      arg |-> JoinFrom(g, p, 1), pc |-> "call",
                      out |-> ValueError]
    /\ UNCHANGED <<cases, files, clock, frames, runs, acquired, hook, store, client>>

\* parse_process_number(arg) returns its dictionary or raises ValueError
ParseReturn ==
    /\ call.pc = "call"
    /\ LET out == ParseProcessNumber(call.arg)
       IN  call' = [call EXCEPT !.out = out,
                                !.pc = IF out.ok THEN "ret" ELSE "raise"]
    /\ UNCHANGED <<cases, files, clock, frames, runs, acquired, hook, store, client>>

(***************************************************************************)
(* PJeClient: the four methods that main() calls, each computed from what  *)
(* the portal and the browser do during the call                           *)
(***************************************************************************)
\* the screenshots that login() takes when nothing fails, in order
LoginCaptures ==
    <<"01_main_page.png", "02_iframe_content.png", "03_before_submit.png",
      "04_after_refresh.png">>

\* what the portal and the browser do during login(): the page loads, the
\* SSO iframe appears, the form fields are found, the page after the submit
\* holds one of "processo", "consulta", "quadroaviso", and the number of
\* save_screenshot calls that succeed before they start to raise
LoginEnvs ==
    [page : BOOLEAN, iframe : BOOLEAN, fields : BOOLEAN, marker : BOOLEAN,
     shots : 0..Len(LoginCaptures)]

\* PJE_USERNAME and PJE_PASSWORD: set or not
Credentials == [username : BOOLEAN, password : BOOLEAN]

\* get_credentials: `if not username or not password: raise ValueError`
GetCredentials(creds) ==
    IF ~creds.username \/ ~creds.password THEN "ValueError" ELSE "ok"

\* the k-th save_screenshot of a method succeeds
Shot(env, k) == k <= env.shots

\* _handle_sso_iframe after the first capture: the wait for the iframe
\* (TimeoutException -> False), the switch and the second capture, whose
\* WebDriverException the method does not catch
HandleSsoIframe(env, ops) ==
    IF ~env.iframe
    THEN [ops |-> ops, taken |-> 1, err |-> "Failed to access SSO iframe"]
    ELSE IF ~Shot(env, 2)
    THEN [ops |-> Append(ops, "switch:iframe"), taken |-> 2,
          err |-> "WebDriverException"]
    ELSE [ops |-> Append(ops, "switch:iframe"), taken |-> 2, err |-> ""]

\* _perform_iframe_login: get_credentials, the two fields, the third capture
\* and the submit, all inside `try ... except Exception: return False`
PerformIframeLogin(creds, env, ops) ==
    IF GetCredentials(creds) # "ok"
    THEN [ops |-> ops, taken |-> 2, err |-> "Failed to login in SSO iframe"]
    ELSE IF ~env.fields
    THEN [ops |-> ops, taken |-> 2, err |-> "Failed to login in SSO iframe"]
    ELSE IF ~Shot(env, 3)
    THEN [ops |-> ops \o <<"type:username", "type:password">>, taken |-> 3,
          err |-> "Failed to login in SSO iframe"]
    ELSE [ops |-> ops \o <<"type:username", "type:password", "click:submit">>,
          taken |-> 3, err |-> ""]

\* _verify_login_success after switch_to.default_content(): one of the
\* indicators is in page_source.lower()
VerifyLoginSuccess(env) == env.marker

\* the try block of login(): err is "" when it reached `return True`, else
\* the message of the exception that reached `except Exception`
LoginBody(creds, env) ==
    IF ~env.page
    THEN [ops |-> <<"get:login">>, taken |-> 0, err |-> "TimeoutException"]
    ELSE IF ~Shot(env, 1)
    THEN [ops |-> <<"get:login">>, taken |-> 1, err |-> "WebDriverException"]
    ELSE LET a == HandleSsoIframe(env, <<"get:login">>)
         IN  IF a.err # "" THEN a
             ELSE LET b == PerformIframeLogin(creds, env, a.ops)
                  IN  IF b.err # "" THEN b
                      ELSE LET ops == b.ops \o <<"switch:default", "read:page">>
                           IN  IF ~VerifyLoginSuccess(env)
                               THEN [ops |-> ops, taken |-> 3,
                                     err |-> "Login verification failed"]
                               ELSE [ops |-> Append(ops, "refresh"),
                                     taken |-> 4, err |-> ""]

\* login(): the try block, and on any exception the handler, which logs,
\* takes the screenshot login_error.png and raises LoginError(cause)
LoginOutcome(creds, env) ==
    LET b == LoginBody(creds, env)
    IN  IF b.err = "" THEN [ops |-> b.ops, raised |-> "", cause |-> ""]
        ELSE IF ~Shot(env, b.taken + 1)
        THEN [ops |-> b.ops, raised |-> "WebDriverException",
              cause |-> "screenshot"]
        ELSE [ops |-> b.ops, raised |-> "LoginError", cause |-> b.err]

\* navigate_to_consultation(): the page load and the capture, every
\* exception rewrapped as NavigationError
NavigateEnvs == [page : BOOLEAN, shot : BOOLEAN]

NavigateOutcome(env) ==
    IF ~env.page
    THEN [ops |-> <<"get:consult">>, raised |-> "NavigationError",
          cause |-> "TimeoutException"]
    ELSE IF ~env.shot
    THEN [ops |-> <<"get:consult">>, raised |-> "NavigationError",
          cause |-> "WebDriverException"]
    ELSE [ops |-> <<"get:consult">>, raised |-> "", cause |-> ""]

\* search_process(): parse_process_number, the four fields, the capture, the
\* search button and the second capture, every exception rewrapped as
\* ProcessNotFoundError
SearchEnvs == [fields : BOOLEAN, button : BOOLEAN, shot : BOOLEAN]

SearchOutcome(x, env) ==
    IF ~ParseProcessNumber(x).ok
    THEN [ops |-> <<>>, raised |-> "ProcessNotFoundError",
          cause |-> "ValueError"]
    ELSE IF ~env.fields
    THEN [ops |-> <<>>, raised |-> "ProcessNotFoundError",
          cause |-> "NoSuchElementException"]
    ELSE IF ~env.shot
    THEN [ops |-> <<"type:fields">>, raised |-> "ProcessNotFoundError",
          cause |-> "WebDriverException"]
    ELSE IF ~env.button
    THEN [ops |-> <<"type:fields">>, raised |-> "ProcessNotFoundError",
          cause |-> "NoSuchElementException"]
    ELSE [ops |-> <<"type:fields", "click:search">>, raised |-> "",
          cause |-> ""]

\* FILE_PATTERNS["pdf_url"]
PdfUrlPattern == "s3-pjedocumentos.tjmg.jus.br"

\* addresses a newly opened tab can show, as their parts in order
ViewerUrls ==
    {<<"https://", "s3-pjedocumentos.tjmg.jus.br", "/doc.pdf">>,
     <<"https://", "pje.tjmg.jus.br", "/viewer">>,
     <<"https://", "example.org", "/", "s3-pjedocumentos.tjmg.jus.br">>}

\* a mutation of UrlMatches: every address passes
UrlMatchesAny(url) == TRUE

\* `FILE_PATTERNS["pdf_url"] in current_url`
UrlMatches(url) == \E i \in DOMAIN url : url[i] = PdfUrlPattern

\* what the portal and the browser do during download_process_document():
\* the results link is clickable, a window opens on the click, the dropdown
\* is there, the page holds the element with id navbar:j_id220 and so many
\* input[value="Download"] elements, a further tab opens, the address that
\* tab shows at each poll, what requests.get does, and whether
\* save_screenshot works
DownloadEnvs ==
    [link : BOOLEAN, newtab : BOOLEAN, dropdown : BOOLEAN, byid : BOOLEAN,
     byvalue : 0..2, viewer : BOOLEAN, urls : [1..MaxPolls -> ViewerUrls],
     fetch : {"ok", "refused", "broken"}, shot : BOOLEAN]

\* the browser and the disk as one helper of download_process_document
\* leaves them, with what the helper returned
Browser(c) ==
    [ops |-> c.ops, handles |-> c.handles, active |-> c.active,
     clicked |-> <<>>, checked |-> <<>>, fetched |-> <<>>,
     written |-> FALSE, ret |-> TRUE]

\* _click_process_link: the wait for the link, the click, the first handle
\* other than the current one (IndexError when there is none), the switch
\* and the capture; any exception -> False
ClickProcessLink(env, b) ==
    IF ~env.link THEN [b EXCEPT !.ret = FALSE]
    ELSE LET clicked == [b EXCEPT !.ops = Append(@, "click:link")]
         IN  IF ~env.newtab THEN [clicked EXCEPT !.ret = FALSE]
             ELSE [clicked EXCEPT !.handles = Append(@, "process"),
                                  !.active = "process",
                                  !.ops = Append(@, "switch:process"),
                                  !.ret = env.shot]

\* _open_download_dropdown: the wait, the click and the capture
OpenDownloadDropdown(env, b) ==
    IF ~env.dropdown THEN [b EXCEPT !.ret = FALSE]
    ELSE [b EXCEPT !.ops = Append(@, "click:dropdown"), !.ret = env.shot]

\* the controls the script of _click_download_button can reach: the element
\* with the id, and the inputs whose value is "Download" in document order
ById == [by |-> "id", at |-> 0]
ByValue(k) == [by |-> "value", at |-> k]

\* a mutation of DownloadButton: the inputs are tried before the id
DownloadButtonValueFirst(env) ==
    IF env.byvalue > 0 THEN <<ByValue(0)>>
    ELSE IF env.byid THEN <<ById>>
    ELSE <<>>

\* the script: getElementById('navbar:j_id220') and click, else
\* querySelectorAll('input[value="Download"]') and click buttons[0], else
\* return false.  The value is the controls it clicked.
DownloadButton(env) ==
    IF env.byid THEN <<ById>>
    ELSE IF env.byvalue > 0 THEN <<ByValue(0)>>
    ELSE <<>>

\* _click_download_button: the script clicks a control or returns false;
\* a click makes the portal open the viewer tab; then the capture
ClickDownloadButton(env, b) ==
    IF DownloadButton(env) = <<>> THEN [b EXCEPT !.ret = FALSE]
    ELSE [b EXCEPT !.ops = Append(@, "click:download"),
                   !.clicked = @ \o DownloadButton(env),
                   !.handles = IF env.viewer THEN Append(@, "viewer") ELSE @,
                   !.ret = env.shot]

\* _download_pdf_from_url: requests.get and raise_for_status, then the file
\* is written chunk by chunk; any exception -> None
DownloadPdfFromUrl(env, url, b) ==
    [b EXCEPT !.ops = Append(@, "fetch"), !.fetched = Append(@, url),
              !.written = env.fetch # "refused", !.ret = env.fetch = "ok"]

\* one pass of the while loop of _handle_pdf_download and the passes after
\* it: i counts the passes that fit in DOWNLOAD_TIMEOUT
RECURSIVE PollPdfTab(_, _, _, _)
PollPdfTab(env, current_window, b, i) ==
    IF i > MaxPolls THEN [b EXCEPT !.ret = FALSE]
    ELSE LET new_tabs == SelectSeq(b.handles, LAMBDA h : h # current_window)
         IN  IF Len(new_tabs) > 1
             THEN LET pdf_tab == new_tabs[Len(new_tabs)]
                      current_url == env.urls[i]
                      seen == [b EXCEPT
                          !.active = pdf_tab,
                          !.ops = @ \o <<"switch:" \o pdf_tab, "read:url">>,
                          !.checked = Append(@, current_url)]
                  IN  IF UrlMatches(current_url)
                      THEN IF ~env.shot THEN [seen EXCEPT !.ret = FALSE]
                           ELSE LET got == DownloadPdfFromUrl(env,
                                               current_url, seen)
                                    process_tab == new_tabs[1]
                                IN  [got EXCEPT
                                       !.handles = SelectSeq(@,
                                           LAMBDA h : h # pdf_tab),
                                       !.active = process_tab,
                                       !.ops = @ \o <<"close",
                                           "switch:" \o process_tab>>]
                      ELSE PollPdfTab(env, current_window, seen, i + 1)
             ELSE PollPdfTab(env, current_window, b, i + 1)

\* _handle_pdf_download: current_window is the handle active on entry
HandlePdfDownload(env, b) == PollPdfTab(env, b.active, b, 1)

\* download_process_document(): the four helpers in order; the exception
\* raised for a helper that failed is caught by the method's own
\* `except Exception` and raised again as DownloadError
DownloadOutcome(env, b0) ==
    LET b1 == ClickProcessLink(env, b0)
        b2 == OpenDownloadDropdown(env, b1)
        b3 == ClickDownloadButton(env, b2)
        b4 == HandlePdfDownload(env, b3)
    IN  IF ~b1.ret
        THEN [b |-> b1, at |-> "link", raised |-> "DownloadError",
              cause |-> "ProcessNotFoundError"]
        ELSE IF ~b2.ret
        THEN [b |-> b2, at |-> "dropdown", raised |-> "DownloadError",
              cause |-> "Failed to open download dropdown"]
        ELSE IF ~b3.ret
        THEN [b |-> b3, at |-> "button", raised |-> "DownloadError",
              cause |-> "Failed to click download button"]
        ELSE IF ~b4.ret
        THEN [b |-> b4, at |-> "pdf", raised |-> "DownloadError",
              cause |-> "Failed to download PDF file"]
        ELSE [b |-> b4, at |-> "done", raised |-> "", cause |-> ""]

\* PROCESS_NUMBER of the run: one that parses and one that does not
ClientIds ==
    {<<"1", "-", "2", ".", "3", ".", "4", ".", "5", ".", "6">>, <<"a">>}

NoClient ==
    [pc |-> "none", x |-> <<>>,
     creds |-> [username |-> TRUE, password |-> TRUE],
     ops |-> <<>>, raised |-> "", cause |-> "", from |-> "",
     handles |-> <<"main">>, active |-> "main", before |-> <<>>,
     checked |-> <<>>, fetched |-> <<>>, written |-> FALSE,
     login |-> [page |-> TRUE, iframe |-> TRUE, fields |-> TRUE,
                marker |-> TRUE, shots |-> 0],
     link |-> TRUE, newtab |-> TRUE, at |-> "", clicked |-> <<>>,
     byid |-> TRUE, byvalue |-> 0]

\* load_dotenv() and PJeClient().__enter__(): the environment holds the
\* credentials or not, and the driver is up with its one window
ClientStart(x, creds) ==
    /\ client.pc = "none"
    /\ client' = [NoClient EXCEPT !.pc = "login", !.x = x, !.creds = creds]
    /\ UNCHANGED <<cases, files, clock, frames, runs, acquired, call, hook,
                   store>>

\* client.login()
ClientLogin ==
    /\ client.pc = "login"
    /\ \E env \in LoginEnvs :
          LET out == LoginOutcome(client.creds, env)
          IN  client' = [client EXCEPT
                  !.pc = IF out.raised = "" THEN "consult" ELSE "raised",
                  !.from = "login",
                  !.ops = @ \o out.ops, !.raised = out.raised,
                  !.cause = out.cause, !.login = env]
    /\ UNCHANGED <<cases, files, clock, frames, runs, acquired, call, hook,
                   store>>

\* client.navigate_to_consultation()
ClientNavigate ==
    /\ client.pc = "consult"
    /\ \E env \in NavigateEnvs :
          LET out == NavigateOutcome(env)
          IN  client' = [client EXCEPT
                  !.pc = IF out.raised = "" THEN "search" ELSE "raised",
                  !.from = "consult",
                  !.ops = @ \o out.ops, !.raised = out.raised,
                  !.cause = out.cause]
    /\ UNCHANGED <<cases, files, clock, frames, runs, acquired, call, hook,
                   store>>

\* client.search_process(PROCESS_NUMBER)
ClientSearch ==
    /\ client.pc = "search"
    /\ \E env \in SearchEnvs :
          LET out == SearchOutcome(client.x, env)
          IN  client' = [client EXCEPT
                  !.pc = IF out.raised = "" THEN "download" ELSE "raised",
                  !.from = "search",
                  !.ops = @ \o out.ops, !.raised = out.raised,
                  !.cause = out.cause]
    /\ UNCHANGED <<cases, files, clock, frames, runs, acquired, call, hook,
                   store>>

\* client.download_process_document(PROCESS_NUMBER)
ClientDownload ==
    /\ client.pc = "download"
    /\ \E env \in DownloadEnvs :
          LET out == DownloadOutcome(env, Browser(client))
          IN  client' = [client EXCEPT
                  !.pc = IF out.raised = "" THEN "returned" ELSE "raised",
                  !.from = "download",
                  !.ops = out.b.ops, !.handles = out.b.handles,
                  !.active = out.b.active,
                  !.before = ClickDownloadButton(
                                 [env EXCEPT !.viewer = FALSE],
                                 OpenDownloadDropdown(env,
                                     ClickProcessLink(env,
                                         Browser(client)))).handles,
                  !.checked = out.b.checked, !.fetched = out.b.fetched,
                  !.written = out.b.written,
                  !.raised = out.raised, !.cause = out.cause,
                  !.link = env.link, !.newtab = env.newtab,
                  !.at = out.at, !.clicked = out.b.clicked,
                  !.byid = env.byid, !.byvalue = env.byvalue]
    /\ UNCHANGED <<cases, files, clock, frames, runs, acquired, call, hook,
                   store>>

(***************************************************************************)
(* CaseDatabase: table `cases`                                             *)
(***************************************************************************)
\* the absent row (Python None) of get_case_info
NoneRow ==
    [id |-> 0, case_number |-> <<>>, file_name |-> <<>>,
     download_date |-> 0, processing_status |-> "", created_at |-> 0,
     updated_at |-> 0]

\* SELECT COUNT(*) FROM cases WHERE case_number = ?  ... count > 0
CaseExists(t, x) == \E i \in DOMAIN t : t[i].case_number = x

\* SELECT * FROM cases WHERE case_number = ?  ... fetchone()
GetCaseInfo(t, x) ==
    IF CaseExists(t, x)
    THEN t[CHOOSE i \in DOMAIN t :
              /\ t[i].case_number = x
              /\ \A j \in DOMAIN t : t[j].case_number = x => i <= j]
    ELSE NoneRow

\* a mutation of SaveArgsValid: the strip() of the emptiness tests is lost
SaveArgsValidNoStrip(x, f) == x # <<>> /\ f # <<>>

\* the two `if not v or not v.strip()` validations of save_case_record
SaveArgsValid(x, f) ==
    /\ x # <<>> /\ Strip(x) # <<>>
    /\ f # <<>> /\ Strip(f) # <<>>

\* a mutation of InsertRow: column case_number without its UNIQUE constraint
InsertRowNoUnique(t, x, f, d, s) ==
    [ok |-> TRUE,
     t  |-> Append(t, [id |-> Len(t) + 1, case_number |-> Strip(x),
                       file_name |-> Strip(f), download_date |-> d,
                       processing_status |-> s, created_at |-> d,
                       updated_at |-> d])]

\* a mutation of InsertRow: the values are inserted as they were passed
InsertRowNoStrip(t, x, f, d, s) ==
    IF \E i \in DOMAIN t : t[i].case_number = x
    THEN [ok |-> FALSE, t |-> t]
    ELSE [ok |-> TRUE,
          t  |-> Append(t, [id |-> Len(t) + 1, case_number |-> x,
                            file_name |-> f, download_date |-> d,
                            processing_status |-> s, created_at |-> d,
                            updated_at |-> d])]

\* INSERT INTO cases (...) VALUES (case_number.strip(), file_name.strip(),
\* download_date, processing_status) under `case_number TEXT UNIQUE NOT NULL`:
\* a second row with the same key raises sqlite3.IntegrityError -> False;
\* created_at and updated_at take their default CURRENT_TIMESTAMP
InsertRow(t, x, f, d, s) ==
    IF \E i \in DOMAIN t : t[i].case_number = Strip(x)
    THEN [ok |-> FALSE, t |-> t]
    ELSE [ok |-> TRUE,
          t  |-> Append(t, [id |-> Len(t) + 1, case_number |-> Strip(x),
                            file_name |-> Strip(f), download_date |-> d,
                            processing_status |-> s, created_at |-> d,
                            updated_at |-> d])]

\* save_case_record run without interruption: validate, check, insert
SaveCaseRecord(t, x, f, d, s) ==
    IF ~SaveArgsValid(x, f) THEN [ok |-> FALSE, t |-> t]
    ELSE IF CaseExists(t, x) THEN [ok |-> FALSE, t |-> t]
    ELSE InsertRow(t, x, f, d, s)

(***************************************************************************)
(* Registry callers.  A caller's save_case_record is two steps, the        *)
(* existence check and the insert, each on its own connection, so that two *)
(* callers interleave between them.                                        *)
(***************************************************************************)
Callers == 1..MaxCallers

\* the caller of the specifications in which calls do not overlap
SeqCallers == {1}

IdleFrame ==
    [op |-> "none", pc |-> "idle", x |-> <<>>, f |-> <<>>, s |-> "",
     why |-> "", changed |-> FALSE,
     had |-> FALSE,     \* a row with key x was there when the call began
     via |-> "",        \* "instance" (a method) or "module" (a function)
     ret |-> "",        \* what the call returned, "raised" when it raised
     rows |-> <<>>,     \* the list that get_all_cases returned
     got |-> ""]        \* processing_status of get_case_info(x) after the call

\* save_case_record, lines 160-173: validation and the case_exists check
SaveBegin(c, x, f, s) ==
    /\ frames[c].pc \in {"idle", "done"}
    /\ frames' = [frames EXCEPT ![c] =
           IF ~SaveArgsValid(x, f)
           THEN [IdleFrame EXCEPT !.op = "save", !.x = x, !.f = f,
                                  !.pc = "done", !.why = "invalid"]
           ELSE IF CaseExists(cases, x)
           THEN [IdleFrame EXCEPT !.op = "save", !.x = x, !.f = f,
                                  !.pc = "done", !.why = "exists"]
           ELSE [IdleFrame EXCEPT !.op = "save", !.x = x, !.f = f, !.s = s,
                                  !.pc = "insert"]]
    /\ UNCHANGED <<cases, files, clock, runs, acquired, call, hook, store, client>>

\* save_case_record, lines 176-213: the insert, commit and the except clauses
SaveInsert(c) ==
    /\ frames[c].pc = "insert"
    /\ LET r == InsertRow(cases, frames[c].x, frames[c].f, clock, frames[c].s)
       IN  /\ cases' = r.t
           /\ frames' = [frames EXCEPT ![c] =
                  [IdleFrame EXCEPT !.op = "save", !.x = frames[c].x,
                      !.f = frames[c].f,
                      !.pc = "done",
                      !.why = IF r.ok THEN "ok" ELSE "integrity",
                      !.changed = (r.t # cases)]]
    /\ UNCHANGED <<files, clock, runs, acquired, call, hook, store, client>>

\* the value save_case_record returned to caller c
SaveReturned(c) == frames[c].why = "ok"

\* the statuses the registry callers pass to update_processing_status
UpdStatusArgs == {"pending", "processing"}

\* cursor.rowcount of the UPDATE: the rows WHERE case_number = ?
RowCount(t, x) == Cardinality({i \in DOMAIN t : t[i].case_number = x})

\* a mutation of UpdateRows: the UPDATE never reaches the table
UpdateRowsLost(t, x, s, now) == t

\* a mutation of UpdateRows: the WHERE clause is lost
UpdateRowsAll(t, x, s, now) ==
    [i \in DOMAIN t |->
        [t[i] EXCEPT !.processing_status = s, !.updated_at = now]]

\* UPDATE cases SET processing_status = ?, updated_at = CURRENT_TIMESTAMP
\* WHERE case_number = ?
UpdateRows(t, x, s, now) ==
    [i \in DOMAIN t |->
        IF t[i].case_number = x
        THEN [t[i] EXCEPT !.processing_status = s, !.updated_at = now]
        ELSE t[i]]

\* update_processing_status: one UPDATE, committed when it matched a row
UpdateProcessingStatus(c, x, s) ==
    /\ frames[c].pc \in {"idle", "done"}
    /\ LET n == RowCount(cases, x)
           t == IF n > 0 THEN UpdateRows(cases, x, s, clock) ELSE cases
       IN  /\ cases' = t
           /\ frames' = [frames EXCEPT ![c] =
                  [IdleFrame EXCEPT !.op = "update", !.x = x, !.s = s,
                      !.pc = "done",
                      !.why = IF n > 0 THEN "ok" ELSE "missing",
                      !.changed = (t # cases),
                      !.had = CaseExists(cases, x),
                      !.got = GetCaseInfo(t, x).processing_status]]
    /\ UNCHANGED <<files, clock, runs, acquired, call, hook, store, client>>

\* the value update_processing_status returned to caller c
UpdateReturned(c) == frames[c].why = "ok"

\* a mutation of OrderedByDownloadDate: ORDER BY download_date ASC
OrderedByDownloadDateAsc(l) ==
    \A i, j \in DOMAIN l : i < j => l[i].download_date <= l[j].download_date

\* ORDER BY download_date DESC
OrderedByDownloadDate(l) ==
    \A i, j \in DOMAIN l : i < j => l[i].download_date >= l[j].download_date

\* the orders in which the rows of t can be listed
Listings(t) ==
    {[i \in DOMAIN t |-> t[p[i]]] :
        p \in {q \in [DOMAIN t -> DOMAIN t] :
                  \A i, j \in DOMAIN t : i # j => q[i] # q[j]}}

\* get_all_cases: SELECT * FROM cases ORDER BY download_date DESC, fetchall();
\* rows with equal download_date come in an order SQL leaves open
GetAllCases(c) ==
    /\ frames[c].pc \in {"idle", "done"}
    /\ \E l \in Listings(cases) :
          /\ OrderedByDownloadDate(l)
          /\ frames' = [frames EXCEPT ![c] =
                 [IdleFrame EXCEPT !.op = "list_all", !.pc = "done",
                                   !.rows = l]]
    /\ UNCHANGED <<cases, files, clock, runs, acquired, call, hook, store, client>>

\* the wall clock advances
Tick ==
    /\ clock < MaxClock
    /\ clock' = clock + 1
    /\ UNCHANGED <<cases, files, frames, runs, acquired, call, hook, store, client>>

(***************************************************************************)
(* Acquire runs.  A run enters through the API (routes.py, services.py),   *)
(* whose background task checks the registry and spawns main.py as a       *)
(* worker, or through main.py started directly.                            *)
(***************************************************************************)
Runs == 1..MaxRuns

\* the case identifier handed to acquire: a well-formed process number
AcqIds == {<<"1", "-", "2", ".", "3", ".", "4", ".", "5", ".", "6">>}

\* two well-formed process numbers, for runs on distinct identifiers
NameIds ==
    AcqIds \cup {<<"1", "-", "2", ".", "3", ".", "4", ".", "5", ".", "7">>}

\* identifiers that fail the parse or are blank
MalIds == {<<"a">>, <<>>, <<" ">>}

StorageDir == "storage/processos"

DataDir == "data"

NoPath == [dir |-> "", name |-> <<>>]

\* os.path.join("storage", "processos", case_info['file_name'])
ExpectedPath(info) == [dir |-> StorageDir, name |-> info.file_name]

\* file_name = f"{process_number}.pdf" of criar_processo_teste
TestFileName(x) == x \o <<".pdf">>

\* filename = f"processo_{int(time.time())}.pdf", joined to DATA_DIR
DownloadPath(now) ==
    [dir |-> DataDir, name |-> <<"processo_", ToString(now), ".pdf">>]

\* os.path.basename(file_path)
Basename(path) == path.name

NoRun ==
    [entry   |-> "none",   \* "api" | "script"
     x       |-> <<>>,     \* the case identifier of the run
     spc     |-> "none",   \* service task: spawn | wait | done
     wpc     |-> "none",   \* worker: precheck | setup | login | consult |
                           \*   search | download | notify | close |
                           \*   exited | killed
     rc      |-> -1,       \* the worker's exit status
     sdec    |-> "none",   \* outcome of the service's pre-check
     wdec    |-> "none",   \* outcome of the worker's pre-check
     sseen   |-> "none",   \* registry and disk as the service's check met them
     wseen   |-> "none",   \* registry and disk as the worker's check met them
     session |-> "none",   \* the browser session: open | quit
     steps   |-> <<>>,     \* the states of the client entered, in order
     fault   |-> "none",   \* the state that raised
     file    |-> NoPath,   \* the artifact the worker wrote
     stdout  |-> <<>>,     \* the worker's printed lines that carry a path
     stderr  |-> "",       \* the worker's log output
     notes   |-> <<>>,     \* the webhooks dispatched for the run, in order
     saved   |-> 0,        \* calls of save_case_record made by the run
     http    |-> 0,        \* the status of the HTTP response of the route
     lookups |-> 0,        \* registry lookups made for the run
     hit     |-> FALSE,    \* a registry lookup of the run met a storage fault
     after   |-> FALSE,    \* started after a successful acquisition of x
     polls   |-> 0]        \* passes of the viewer poll that found no document

\* the answers of the webhook endpoint: 200, another status, no answer
Deliveries == {"200", "500", "fault"}

\* a mutation of SendWebhook: the except clause is lost
SendWebhookRaises(h) ==
    [posts |-> 1,
     outcome |-> CASE h = "200" -> "sent" [] h = "500" -> "warned"
                   [] h = "fault" -> "raised"]

\* send_webhook of main.py: one requests.post inside try; a status other
\* than 200 is printed, an exception is caught and printed
SendWebhook(h) ==
    [posts |-> 1,
     outcome |-> CASE h = "200" -> "sent" [] h = "500" -> "warned"
                   [] h = "fault" -> "absorbed"]

\* ProcessoService._enviar_webhook: one client.post inside try; a status
\* other than 200 is logged as a warning, an exception is caught and logged
EnviarWebhook(h) ==
    [posts |-> 1,
     outcome |-> CASE h = "200" -> "sent" [] h = "500" -> "warned"
                   [] h = "fault" -> "absorbed"]

\* ProcessoService._enviar_webhook_sucesso_existente: one client.post and
\* raise_for_status() inside try; httpx.HTTPError and Exception are caught
EnviarWebhookSucessoExistente(h) ==
    [posts |-> 1,
     outcome |-> CASE h = "200" -> "sent" [] h = "500" -> "absorbed"
                   [] h = "fault" -> "absorbed"]

\* the endpoint starts to answer with h
WebhookEndpoint(h) ==
    /\ h # hook
    /\ hook' = h
    /\ UNCHANGED <<cases, files, clock, frames, runs, acquired, call, store, client>>

\* a dispatched webhook; a success webhook is logged with the file name and
\* status that the registry holds for x at that moment
Note(by, status, erro, path, x) ==
    [by |-> by, status |-> status, erro |-> erro, arquivo |-> path,
     hook |-> hook,
     sent |-> IF by = "worker" THEN SendWebhook(hook)
              ELSE IF status = "sucesso" /\ path.dir = StorageDir
                   THEN EnviarWebhookSucessoExistente(hook)
                   ELSE EnviarWebhook(hook),
     reg |-> IF status = "sucesso"
             THEN [file_name |-> GetCaseInfo(cases, x).file_name,
                   processing_status |-> GetCaseInfo(cases, x).processing_status]
             ELSE [file_name |-> <<>>, processing_status |-> ""]]

\* what a pre-check finds: no row, a row without its file, a row and its file
Seen(t, fs, x) ==
    IF ~(\E i \in DOMAIN t : t[i].case_number = x) THEN "norec"
    ELSE IF \E i \in DOMAIN t :
               /\ t[i].case_number = x
               /\ [dir |-> StorageDir, name |-> t[i].file_name] \in fs
         THEN "recfile"
         ELSE "rec"

\* a mutation of PreCheck: a row alone counts as a duplicate
PreCheckRowOnly(t, fs, x) ==
    IF CaseExists(t, x) THEN "skip" ELSE "new"

\* a mutation of PreCheck: the skip branch is lost, the file is always restored
PreCheckNoSkip(t, fs, x) ==
    IF CaseExists(t, x) THEN "restore" ELSE "new"

\* Step 0 of main() and of iniciar_download: case_exists, get_case_info,
\* then the existence of the expected file
PreCheck(t, fs, x) ==
    IF CaseExists(t, x)
    THEN LET case_info == GetCaseInfo(t, x)
         IN  IF case_info # NoneRow
             THEN IF ExpectedPath(case_info) \in fs THEN "skip" ELSE "restore"
             ELSE "inconsistent"
    ELSE "new"

\* str(e) of the sqlite3.Error that _initialize_database raises again, as
\* iniciar_download reports it, and as main() reports it
DatabaseError == "unable to open database file"

UnexpectedDatabaseError == "Unexpected error: unable to open database file"

\* get_database(): the instance of the process, made on first use by
\* CaseDatabase(), whose _initialize_database logs sqlite3.Error and raises it
\* again
GetDatabase(st) ==
    IF st.inst THEN "instance"
    ELSE IF st.fault THEN "raises" ELSE "created"

\* the pre-check on an instance: case_exists catches sqlite3.Error and
\* returns False, which is the answer for an identifier without a record
PreCheckStored(st, t, fs, x) ==
    IF st.fault THEN "new" ELSE PreCheck(t, fs, x)

\* a mutation of PreCheckBetween: a record whose info cannot be read counts
\* as a duplicate
PreCheckBetweenSkips(st1, st2, t, fs, x) ==
    IF st1.fault \/ ~CaseExists(t, x) THEN "new"
    ELSE IF st2.fault THEN "skip"
    ELSE PreCheck(t, fs, x)

\* the pre-check when the database file is st1 at case_exists and st2 at
\* get_case_info: get_case_info catches sqlite3.Error and returns None,
\* which takes the `else` of `if case_info`
PreCheckBetween(st1, st2, t, fs, x) ==
    IF st1.fault \/ ~CaseExists(t, x) THEN "new"
    ELSE IF st2.fault THEN "inconsistent"
    ELSE PreCheck(t, fs, x)

\* the database file becomes unusable, or usable again
StorageFault ==
    /\ store' = [store EXCEPT !.fault = ~@]
    /\ UNCHANGED <<cases, files, clock, frames, runs, acquired, call, hook, client>>

\* the operations of the registry, and those that the module also offers as
\* functions on get_database()
RegistryOps == {"exists", "get", "save", "update", "list_all"}

ModuleOps == {"exists", "save"}

\* what each method returns from its `except sqlite3.Error` clause
FaultReturn(op) ==
    CASE op = "exists"   -> "false"
      [] op = "get"      -> "none"
      [] op = "save"     -> "false"
      [] op = "update"   -> "false"
      [] op = "list_all" -> "empty"

\* what each method returns when sqlite3 raises nothing
PlainReturn(op, t, x, f) ==
    CASE op = "exists"   -> IF CaseExists(t, x) THEN "true" ELSE "false"
      [] op = "get"      -> IF GetCaseInfo(t, x) # NoneRow THEN "row" ELSE "none"
      [] op = "save"     ->
           IF SaveCaseRecord(t, x, f, 0, "completed").ok THEN "true" ELSE "false"
      [] op = "update"   -> IF RowCount(t, x) > 0 THEN "true" ELSE "false"
      [] op = "list_all" -> IF t = <<>> THEN "empty" ELSE "list"

\* a call of a registry operation, as a method of an instance the caller
\* holds or as a module function that asks get_database() for it
RegistryCall(c, op, via, x, f, s) ==
    /\ frames[c].pc \in {"idle", "done"}
    /\ via = "instance" => store.inst
    /\ via = "module" => op \in ModuleOps
    /\ LET db == IF via = "module" THEN GetDatabase(store) ELSE "instance"
           t == IF db = "raises" \/ store.fault THEN cases
                ELSE IF op = "save" THEN SaveCaseRecord(cases, x, f, clock, s).t
                ELSE IF op = "update" /\ RowCount(cases, x) > 0
                     THEN UpdateRows(cases, x, s, clock)
                ELSE cases
       IN  /\ cases' = t
           /\ store' = IF db = "created" THEN [store EXCEPT !.inst = TRUE]
                       ELSE store
           /\ frames' = [frames EXCEPT ![c] =
                  [IdleFrame EXCEPT !.op = op, !.via = via, !.x = x, !.f = f,
                      !.s = s, !.pc = "done",
                      !.why = IF db = "raises" THEN "raised"
                              ELSE IF store.fault THEN "fault" ELSE "plain",
                      !.changed = (t # cases),
                      !.ret = IF db = "raises" THEN "raised"
                              ELSE IF store.fault THEN FaultReturn(op)
                              ELSE PlainReturn(op, cases, x, f)]]
    /\ UNCHANGED <<files, clock, runs, acquired, call, hook, client>>

\* the cause carried by the exception a state raises, as main() reports it
FaultCause(st) ==
    CASE st = "login"    -> "PJe Automation Error: Login failed"
      [] st = "consult"  ->
           "PJe Automation Error: Failed to navigate to consultation page"
      [] st = "search"   -> "PJe Automation Error: Failed to search for process"
      [] st = "download" -> "PJe Automation Error: Failed to download document"

\* _extrair_caminho_arquivo: the first "File saved at:" line, else the first
\* line with "data/" and ".pdf" in it, else None
ExtrairCaminhoArquivo(out) ==
    IF \E i \in DOMAIN out : out[i].text = "File saved at: "
    THEN out[CHOOSE i \in DOMAIN out :
                /\ out[i].text = "File saved at: "
                /\ \A j \in DOMAIN out :
                      out[j].text = "File saved at: " => i <= j].path
    ELSE IF \E i \in DOMAIN out :
               /\ out[i].path.dir = DataDir
               /\ out[i].path.name # <<>>
               /\ out[i].path.name[Len(out[i].path.name)] = ".pdf"
         THEN out[CHOOSE i \in DOMAIN out :
                     /\ out[i].path.dir = DataDir
                     /\ out[i].path.name # <<>>
                     /\ out[i].path.name[Len(out[i].path.name)] = ".pdf"].path
         ELSE NoPath

Finished(r) ==
    \/ runs[r].entry = "api" /\ runs[r].spc = "done"
    \/ runs[r].entry = "script" /\ runs[r].wpc = "exited"

\* a run may start where none has started or the previous one has finished
Fresh(r) ==
    /\ runs[r].entry = "none" \/ Finished(r)
    /\ \A q \in Runs : q < r => runs[q].entry # "none"

\* baixar_processo: numero_processo = request.numero_processo.strip();
\* `if not numero_processo` raises HTTPException 400
RouteRejects(raw) == Strip(raw) = <<>>

\* POST /baixar-processo: an identifier the route rejects is answered 400;
\* otherwise the background task iniciar_download starts on the stripped
\* identifier with the pre-check and, on a duplicate, the success webhook
\* mid: the database file becomes unusable between case_exists and
\* get_case_info
BaixarProcessoBetween(r, raw, mid) ==
    /\ Fresh(r)
    /\ mid => /\ ~RouteRejects(raw) /\ ~store.fault
              /\ CaseExists(cases, Strip(raw))
    /\ LET x == Strip(raw)
           db == GetDatabase(store)
           later == [store EXCEPT !.fault = @ \/ mid]
           d == IF db = "raises" THEN "fault"
                ELSE PreCheckBetween(store, later, cases, files, x)
           base == [NoRun EXCEPT !.entry = "api", !.x = x, !.sdec = d,
                                 !.sseen = Seen(cases, files, x),
                                 !.http = 200, !.lookups = 1,
                                 !.hit = later.fault,
                                 !.after = (x \in acquired)]
       IN  /\ runs' = [runs EXCEPT ![r] =
                 IF RouteRejects(raw)
                 THEN [NoRun EXCEPT !.entry = "api", !.x = x, !.spc = "done",
                                    !.http = 400]
                 ELSE IF d = "fault"
                 THEN [base EXCEPT !.spc = "done",
                         !.notes = <<Note("service", "erro",
                                          DatabaseError, NoPath, x)>>]
                 ELSE IF d = "skip"
                 THEN [base EXCEPT !.spc = "done",
                         !.notes = <<Note("service", "sucesso", "",
                                      ExpectedPath(GetCaseInfo(cases, x)), x)>>]
                 ELSE [base EXCEPT !.spc = "spawn"]]
           /\ store' = IF RouteRejects(raw) \/ db = "raises" THEN store
                       ELSE [later EXCEPT !.inst = TRUE]
    /\ UNCHANGED <<cases, files, clock, frames, acquired, call, hook, client>>

\* POST /baixar-processo with the database file as it is throughout
BaixarProcesso(r, raw) == BaixarProcessoBetween(r, raw, FALSE)

\* _executar_script_async: asyncio.create_subprocess_exec, which starts
\* main.py or raises
CreateSubprocess(r, ok) ==
    /\ runs[r].spc = "spawn"
    /\ runs' = [runs EXCEPT ![r] =
          IF ok
          THEN [@ EXCEPT !.spc = "wait", !.wpc = "precheck"]
          ELSE [@ EXCEPT !.spc = "done",
                  !.notes = Append(@, Note("service", "erro", "spawn failed",
                                           NoPath, runs[r].x))]]
    /\ UNCHANGED <<cases, files, clock, frames, acquired, call, hook, store, client>>

\* _executar_script_async after communicate() returned: the exit status
\* decides between _processar_sucesso and the error webhook
Communicate(r) ==
    /\ runs[r].spc = "wait"
    /\ runs[r].wpc = "exited"
    /\ LET path == ExtrairCaminhoArquivo(runs[r].stdout)
           note ==
             IF runs[r].rc = 0
             THEN IF path # NoPath
                  THEN Note("service", "sucesso", "", path, runs[r].x)
                  ELSE Note("service", "erro",
                            "Arquivo baixado mas caminho não encontrado no output",
                            NoPath, runs[r].x)
             ELSE Note("service", "erro",
                       IF runs[r].stderr # "" THEN runs[r].stderr
                       ELSE "Script retornou código de erro",
                       NoPath, runs[r].x)
       IN  /\ runs' = [runs EXCEPT ![r].spc = "done",
                                   ![r].notes = Append(@, note)]
           /\ acquired' = IF note.status = "sucesso" /\ runs[r].file # NoPath
                          THEN acquired \cup {runs[r].x} ELSE acquired
    /\ UNCHANGED <<cases, files, clock, frames, call, hook, store, client>>

\* a mutation of ScriptTimeout: communicate() is awaited without a timeout
ScriptTimeoutNever(r) ==
    /\ runs[r].spc = "wait"
    /\ FALSE
    /\ UNCHANGED vars

\* _executar_script_async on asyncio.TimeoutError: kill the worker, report
ScriptTimeout(r) ==
    /\ runs[r].spc = "wait"
    /\ runs[r].wpc \notin {"exited", "killed"}
    /\ runs' = [runs EXCEPT ![r].spc = "done", ![r].wpc = "killed",
                  ![r].notes = Append(@, Note("service", "erro",
                                    "Script timeout após 300 segundos",
                                    NoPath, runs[r].x))]
    /\ UNCHANGED <<cases, files, clock, frames, acquired, call, hook, store, client>>

\* python main.py <numero>, started directly
MainScript(r, x) ==
    /\ Fresh(r)
    /\ runs' = [runs EXCEPT ![r] =
                  [NoRun EXCEPT !.entry = "script", !.x = x, !.wpc = "precheck"]]
    /\ UNCHANGED <<cases, files, clock, frames, acquired, call, hook, store, client>>

\* main(), Step 0: the pre-check and, on a duplicate, the success webhook
\* and the return
\* mid: the database file becomes unusable between case_exists and
\* get_case_info
WorkerPreCheckBetween(r, mid) ==
    /\ runs[r].wpc = "precheck"
    /\ mid => ~store.fault /\ CaseExists(cases, runs[r].x)
    /\ store' = [store EXCEPT !.fault = @ \/ mid]
    /\ LET x == runs[r].x
           db == GetDatabase([store EXCEPT !.inst = FALSE])
           d == IF db = "raises" THEN "fault"
                ELSE PreCheckBetween(store, store', cases, files, x)
           path == ExpectedPath(GetCaseInfo(cases, x))
           base == [runs[r] EXCEPT !.wdec = d,
                       !.wseen = Seen(cases, files, x),
                       !.lookups = @ + 1,
                       !.hit = (@ \/ store'.fault),
                       !.after = IF runs[r].entry = "script"
                                 THEN x \in acquired ELSE @]
       IN  runs' = [runs EXCEPT ![r] =
              IF d = "fault"
              THEN [base EXCEPT !.wpc = "exited", !.rc = 1,
                      !.notes = Append(@, Note("worker", "erro",
                                    UnexpectedDatabaseError, NoPath, x))]
              ELSE IF d = "skip"
              THEN [base EXCEPT !.wpc = "exited", !.rc = 0,
                      !.stdout = Append(@, [text |-> "File exists at: ",
                                            path |-> path]),
                      !.notes = Append(@, Note("worker", "sucesso", "", path, x))]
              ELSE [base EXCEPT !.wpc = "setup"]]
    /\ UNCHANGED <<cases, files, clock, frames, acquired, call, hook, client>>

\* main(), Step 0, with the database file as it is throughout
WorkerPreCheck(r) == WorkerPreCheckBetween(r, FALSE)

\* a mutation of RaiseFrom: the fault is reported and the next state runs
RaiseFromResumes(r, st) ==
    [runs[r] EXCEPT
        !.wpc = CASE st = "login" -> "consult" [] st = "consult" -> "search"
                  [] st = "search" -> "download" [] st = "download" -> "exited",
        !.fault = st, !.steps = Append(@, st),
        !.notes = Append(@, Note("worker", "erro", FaultCause(st), NoPath,
                                 runs[r].x))]

\* main() leaving the `with` block on an exception of a state: __exit__
\* quits the driver, the handler sends the error webhook, sys.exit(1)
RaiseFrom(r, st) ==
    [runs[r] EXCEPT !.wpc = "exited", !.rc = 1, !.session = "quit",
        !.fault = st, !.steps = Append(@, st),
        !.notes = Append(@, Note("worker", "erro", FaultCause(st), NoPath,
                                 runs[r].x))]

\* PJeClient() and __enter__: setup_driver starts Chrome or raises
SetupDriver(r, ok) ==
    /\ runs[r].wpc = "setup"
    /\ runs' = [runs EXCEPT ![r] =
          IF ok
          THEN [@ EXCEPT !.wpc = "login", !.session = "open",
                         !.stderr = "log"]
          ELSE [@ EXCEPT !.wpc = "exited", !.rc = 1, !.stderr = "log",
                  !.notes = Append(@, Note("worker", "erro",
                                    "Unexpected error: WebDriverException",
                                    NoPath, runs[r].x))]]
    /\ UNCHANGED <<cases, files, clock, frames, acquired, call, hook, store, client>>

\* client.login()
Login(r, ok) ==
    /\ runs[r].wpc = "login"
    /\ runs' = [runs EXCEPT ![r] =
          IF ok THEN [@ EXCEPT !.wpc = "consult", !.steps = Append(@, "login")]
          ELSE RaiseFrom(r, "login")]
    /\ UNCHANGED <<cases, files, clock, frames, acquired, call, hook, store, client>>

\* client.navigate_to_consultation()
NavigateToConsultation(r, ok) ==
    /\ runs[r].wpc = "consult"
    /\ runs' = [runs EXCEPT ![r] =
          IF ok THEN [@ EXCEPT !.wpc = "search", !.steps = Append(@, "consult")]
          ELSE RaiseFrom(r, "consult")]
    /\ UNCHANGED <<cases, files, clock, frames, acquired, call, hook, store, client>>

\* client.search_process(PROCESS_NUMBER): parse_process_number, then the
\* four fields are filled and the search button clicked
SearchProcess(r, ok) ==
    /\ runs[r].wpc = "search"
    /\ runs' = [runs EXCEPT ![r] =
          IF ok /\ ParseProcessNumber(runs[r].x).ok THEN [@ EXCEPT !.wpc = "download", !.steps = Append(@, "search")]
          ELSE RaiseFrom(r, "search")]
    /\ UNCHANGED <<cases, files, clock, frames, acquired, call, hook, store, client>>

\* client.download_process_document(PROCESS_NUMBER): on success the PDF is
\* written under DATA_DIR and main() prints "File saved at: <path>".  The
\* written path is kept in runs[r].file; DATA_DIR is not the directory that
\* `files` holds, so storage/processos is left as it was.
DownloadProcessDocument(r, ok) ==
    /\ runs[r].wpc = "download"
    /\ LET path == DownloadPath(clock)
       IN  /\ runs' = [runs EXCEPT ![r] =
                 IF ok
                 THEN [@ EXCEPT !.wpc = "notify", !.file = path,
                         !.steps = Append(@, "download"),
                         !.stdout = Append(@, [text |-> "File saved at: ",
                                               path |-> path])]
                 ELSE RaiseFrom(r, "download")]
    /\ UNCHANGED <<cases, files, clock, frames, acquired, call, hook, store, client>>

\* _handle_pdf_download inside download_process_document: one pass of the
\* while loop that finds no tab with the document while time remains
HandlePdfDownloadPass(r) ==
    /\ runs[r].wpc = "download"
    /\ runs[r].polls < MaxPolls
    /\ runs' = [runs EXCEPT ![r].polls = @ + 1]
    /\ UNCHANGED <<cases, files, clock, frames, acquired, call, hook, store,
                   client>>

\* _handle_pdf_download when DOWNLOAD_TIMEOUT has passed: the loop ends,
\* None is returned and download_process_document raises DownloadError
HandlePdfDownloadTimeout(r) ==
    /\ runs[r].polls = MaxPolls
    /\ DownloadProcessDocument(r, FALSE)

\* main(), lines 168-180: the success webhook of the worker
SendSuccessWebhook(r) ==
    /\ runs[r].wpc = "notify"
    /\ runs' = [runs EXCEPT ![r].wpc = "close",
                  ![r].notes = Append(@, Note("worker", "sucesso", "",
                                              runs[r].file, runs[r].x))]
    /\ UNCHANGED <<cases, files, clock, frames, acquired, call, hook, store, client>>

\* the end of the `with` block: __exit__ -> close() -> driver.quit(), then
\* main() returns and the process exits with status 0
ClientClose(r) ==
    /\ runs[r].wpc = "close"
    /\ runs' = [runs EXCEPT ![r].wpc = "exited", ![r].rc = 0,
                            ![r].session = "quit"]
    /\ acquired' = IF runs[r].entry = "script"
                   THEN acquired \cup {runs[r].x} ELSE acquired
    /\ UNCHANGED <<cases, files, clock, frames, call, hook, store, client>>

\* criar_processo_teste: a PDF placed under storage/processos and its row
\* saved through save_case_record
CriarProcessoTeste(x) ==
    /\ files' = files \cup {[dir |-> StorageDir, name |-> TestFileName(x)]}
    /\ cases' = SaveCaseRecord(cases, x, TestFileName(x), clock, "completed").t
    /\ acquired' = {}
    /\ UNCHANGED <<clock, frames, runs, call, hook, store, client>>

\* limpar_processo_teste: the PDF removed, the row kept
LimparProcessoTeste(x) ==
    /\ [dir |-> StorageDir, name |-> TestFileName(x)] \in files
    /\ files' = files \ {[dir |-> StorageDir, name |-> TestFileName(x)]}
    /\ acquired' = {}
    /\ UNCHANGED <<cases, clock, frames, runs, call, hook, store, client>>

Init ==
    /\ cases = <<>>
    /\ files = {}
    /\ clock = 0
    /\ frames = [c \in Callers |-> IdleFrame]
    /\ runs = [r \in Runs |-> NoRun]
    /\ acquired = {}
    /\ call = NoCall
    /\ hook = "200"
    /\ store = [fault |-> FALSE, inst |-> FALSE]
    /\ client = NoClient

Next ==
    \/ \E r \in Runs, x \in AcqIds : BaixarProcesso(r, x)
    \/ \E r \in Runs, ok \in BOOLEAN : CreateSubprocess(r, ok)
    \/ \E r \in Runs : Communicate(r)
    \/ \E r \in Runs : ScriptTimeout(r)
    \/ \E r \in Runs, x \in AcqIds : MainScript(r, x)
    \/ \E r \in Runs : WorkerPreCheck(r)
    \/ \E r \in Runs, ok \in BOOLEAN : SetupDriver(r, ok)
    \/ \E r \in Runs, ok \in BOOLEAN : Login(r, ok)
    \/ \E r \in Runs, ok \in BOOLEAN : NavigateToConsultation(r, ok)
    \/ \E r \in Runs, ok \in BOOLEAN : SearchProcess(r, ok)
    \/ \E r \in Runs, ok \in BOOLEAN : DownloadProcessDocument(r, ok)
    \/ \E r \in Runs : SendSuccessWebhook(r)
    \/ \E r \in Runs : ClientClose(r)
    \/ \E x \in AcqIds : CriarProcessoTeste(x)
    \/ \E x \in AcqIds : LimparProcessoTeste(x)

Spec == Init /\ [][Next]_vars

InitReg ==
    /\ cases = <<>>
    /\ files = {}
    /\ clock = 0
    /\ frames = [c \in Callers |-> IdleFrame]
    /\ runs = [r \in Runs |-> NoRun]
    /\ acquired = {}
    /\ call = NoCall
    /\ hook = "200"
    /\ store = [fault |-> FALSE, inst |-> FALSE]
    /\ client = NoClient

NextReg ==
    \/ \E c \in Callers, x \in IdArgs, f \in FileArgs, s \in StatusArgs :
          SaveBegin(c, x, f, s)
    \/ \E c \in Callers : SaveInsert(c)

SpecReg == InitReg /\ [][NextReg]_vars

(***************************************************************************)
(* Acquire runs, one after the other, against a webhook endpoint that      *)
(* answers 200, answers another status or does not answer                  *)
(***************************************************************************)
OneRun == {1}

InitNotify ==
    /\ cases = <<>>
    /\ files = {}
    /\ clock = 0
    /\ frames = [c \in Callers |-> IdleFrame]
    /\ runs = [r \in Runs |-> NoRun]
    /\ acquired = {}
    /\ call = NoCall
    /\ hook = "200"
    /\ store = [fault |-> FALSE, inst |-> FALSE]
    /\ client = NoClient

NextNotify ==
    \/ \E r \in OneRun, x \in AcqIds : BaixarProcesso(r, x)
    \/ \E r \in OneRun, ok \in BOOLEAN : CreateSubprocess(r, ok)
    \/ \E r \in OneRun : Communicate(r)
    \/ \E r \in OneRun : ScriptTimeout(r)
    \/ \E r \in OneRun, x \in AcqIds : MainScript(r, x)
    \/ \E r \in OneRun : WorkerPreCheck(r)
    \/ \E r \in OneRun, ok \in BOOLEAN : SetupDriver(r, ok)
    \/ \E r \in OneRun, ok \in BOOLEAN : Login(r, ok)
    \/ \E r \in OneRun, ok \in BOOLEAN : NavigateToConsultation(r, ok)
    \/ \E r \in OneRun, ok \in BOOLEAN : SearchProcess(r, ok)
    \/ \E r \in OneRun, ok \in BOOLEAN : DownloadProcessDocument(r, ok)
    \/ \E r \in OneRun : SendSuccessWebhook(r)
    \/ \E r \in OneRun : ClientClose(r)
    \/ \E x \in AcqIds : CriarProcessoTeste(x)
    \/ \E h \in Deliveries : WebhookEndpoint(h)

SpecNotify == InitNotify /\ [][NextNotify]_vars

(***************************************************************************)
(* The registry used by one caller on a database file that becomes         *)
(* unusable and usable again                                               *)
(***************************************************************************)
FaultIds == {<<"a">>, <<"b">>}

InitFault ==
    /\ cases = <<>>
    /\ files = {}
    /\ clock = 0
    /\ frames = [c \in Callers |-> IdleFrame]
    /\ runs = [r \in Runs |-> NoRun]
    /\ acquired = {}
    /\ call = NoCall
    /\ hook = "200"
    /\ store = [fault |-> FALSE, inst |-> FALSE]
    /\ client = NoClient

NextFault ==
    \/ \E c \in SeqCallers, op \in RegistryOps, via \in {"instance", "module"},
          x \in FaultIds, s \in UpdStatusArgs :
             RegistryCall(c, op, via, x, <<"f">>, s)
    \/ StorageFault

SpecFault == InitFault /\ [][NextFault]_vars

(***************************************************************************)
(* Acquire runs, one after the other, on a database file that becomes      *)
(* unusable and usable again                                               *)
(***************************************************************************)
InitFaultRun ==
    /\ cases = <<>>
    /\ files = {}
    /\ clock = 0
    /\ frames = [c \in Callers |-> IdleFrame]
    /\ runs = [r \in Runs |-> NoRun]
    /\ acquired = {}
    /\ call = NoCall
    /\ hook = "200"
    /\ store = [fault |-> FALSE, inst |-> FALSE]
    /\ client = NoClient

NextFaultRun ==
    \/ \E r \in OneRun, x \in AcqIds : BaixarProcesso(r, x)
    \/ \E r \in OneRun, ok \in BOOLEAN : CreateSubprocess(r, ok)
    \/ \E r \in OneRun : Communicate(r)
    \/ \E r \in OneRun : ScriptTimeout(r)
    \/ \E r \in OneRun, x \in AcqIds : MainScript(r, x)
    \/ \E r \in OneRun : WorkerPreCheck(r)
    \/ \E r \in OneRun, ok \in BOOLEAN : SetupDriver(r, ok)
    \/ \E r \in OneRun, ok \in BOOLEAN : Login(r, ok)
    \/ \E r \in OneRun, ok \in BOOLEAN : NavigateToConsultation(r, ok)
    \/ \E r \in OneRun, ok \in BOOLEAN : SearchProcess(r, ok)
    \/ \E r \in OneRun, ok \in BOOLEAN : DownloadProcessDocument(r, ok)
    \/ \E r \in OneRun : SendSuccessWebhook(r)
    \/ \E r \in OneRun : ClientClose(r)
    \/ \E x \in AcqIds : CriarProcessoTeste(x)
    \/ StorageFault

SpecFaultRun == InitFaultRun /\ [][NextFaultRun]_vars

(***************************************************************************)
(* Two worker scripts, started directly on one or two identifiers, side by *)
(* side or one after the other, while the clock advances                   *)
(***************************************************************************)
TwoRuns == {1, 2}

InitNames ==
    /\ cases = <<>>
    /\ files = {}
    /\ clock = 0
    /\ frames = [c \in Callers |-> IdleFrame]
    /\ runs = [r \in TwoRuns |-> NoRun]
    /\ acquired = {}
    /\ call = NoCall
    /\ hook = "200"
    /\ store = [fault |-> FALSE, inst |-> FALSE]
    /\ client = NoClient

NextNames ==
    \/ \E r \in TwoRuns, x \in NameIds : MainScript(r, x)
    \/ \E r \in TwoRuns : WorkerPreCheck(r)
    \/ \E r \in TwoRuns, ok \in BOOLEAN : SetupDriver(r, ok)
    \/ \E r \in TwoRuns, ok \in BOOLEAN : Login(r, ok)
    \/ \E r \in TwoRuns, ok \in BOOLEAN : NavigateToConsultation(r, ok)
    \/ \E r \in TwoRuns, ok \in BOOLEAN : SearchProcess(r, ok)
    \/ \E r \in TwoRuns, ok \in BOOLEAN : DownloadProcessDocument(r, ok)
    \/ \E r \in TwoRuns : SendSuccessWebhook(r)
    \/ \E r \in TwoRuns : ClientClose(r)
    \/ Tick

SpecNames == InitNames /\ [][NextNames]_vars

(***************************************************************************)
(* CaseDatabase, one call after the other, with update_processing_status   *)
(* passed a status of the enumeration, one outside it and the empty one    *)
(***************************************************************************)
AnyStatusArgs == {"", "pending", "archived"}

InitStatus ==
    /\ cases = <<>>
    /\ files = {}
    /\ clock = 0
    /\ frames = [c \in Callers |-> IdleFrame]
    /\ runs = [r \in Runs |-> NoRun]
    /\ acquired = {}
    /\ call = NoCall
    /\ hook = "200"
    /\ store = [fault |-> FALSE, inst |-> FALSE]
    /\ client = NoClient

NextStatus ==
    \/ \E c \in SeqCallers, x \in IdArgs, f \in FileArgs, s \in StatusArgs :
          SaveBegin(c, x, f, s)
    \/ \E c \in SeqCallers : SaveInsert(c)
    \/ \E c \in SeqCallers, x \in IdArgs, s \in AnyStatusArgs :
          UpdateProcessingStatus(c, x, s)
    \/ Tick

SpecStatus == InitStatus /\ [][NextStatus]_vars

(***************************************************************************)
(* One acquire run at a time with the portal free to stop answering.  The  *)
(* service's task runs on the event loop and its timeout fires; a worker   *)
(* started by hand takes every step, each call of it carrying a timeout;   *)
(* a worker under the service may stall, and the portal need never show    *)
(* the document.                                                           *)
(***************************************************************************)
InitLive ==
    /\ cases = <<>>
    /\ files = {}
    /\ clock = 0
    /\ frames = [c \in Callers |-> IdleFrame]
    /\ runs = [r \in Runs |-> NoRun]
    /\ acquired = {}
    /\ call = NoCall
    /\ hook = "200"
    /\ store = [fault |-> FALSE, inst |-> FALSE]
    /\ client = NoClient

\* the steps of main() that end by themselves
WorkerStep(r) ==
    \/ WorkerPreCheck(r)
    \/ \E ok \in BOOLEAN : SetupDriver(r, ok)
    \/ \E ok \in BOOLEAN : Login(r, ok)
    \/ \E ok \in BOOLEAN : NavigateToConsultation(r, ok)
    \/ \E ok \in BOOLEAN : SearchProcess(r, ok)
    \/ HandlePdfDownloadPass(r)
    \/ HandlePdfDownloadTimeout(r)
    \/ SendSuccessWebhook(r)
    \/ ClientClose(r)

NextLive ==
    \/ \E r \in OneRun, x \in AcqIds : BaixarProcesso(r, x)
    \/ \E r \in OneRun, ok \in BOOLEAN : CreateSubprocess(r, ok)
    \/ \E r \in OneRun : Communicate(r)
    \/ \E r \in OneRun : ScriptTimeout(r)
    \/ \E r \in OneRun, x \in AcqIds : MainScript(r, x)
    \/ \E r \in OneRun : WorkerStep(r)
    \/ \E r \in OneRun, ok \in BOOLEAN : DownloadProcessDocument(r, ok)
    \/ \E x \in AcqIds : CriarProcessoTeste(x)
    \/ \E x \in AcqIds : LimparProcessoTeste(x)

FairLive ==
    /\ WF_vars(\E r \in OneRun, ok \in BOOLEAN : CreateSubprocess(r, ok))
    /\ WF_vars(\E r \in OneRun : Communicate(r))
    /\ WF_vars(\E r \in OneRun : ScriptTimeout(r))
    /\ WF_vars(\E r \in OneRun : runs[r].entry = "script" /\ WorkerStep(r))

SpecLive == InitLive /\ [][NextLive]_vars /\ FairLive

(***************************************************************************)
(* One acquire run at a time on a database file that may become unusable   *)
(* between the two calls of a pre-check, and usable again                  *)
(***************************************************************************)
InitBetween ==
    /\ cases = <<>>
    /\ files = {}
    /\ clock = 0
    /\ frames = [c \in Callers |-> IdleFrame]
    /\ runs = [r \in Runs |-> NoRun]
    /\ acquired = {}
    /\ call = NoCall
    /\ hook = "200"
    /\ store = [fault |-> FALSE, inst |-> FALSE]
    /\ client = NoClient

NextBetween ==
    \/ \E r \in OneRun, x \in AcqIds, mid \in BOOLEAN :
          BaixarProcessoBetween(r, x, mid)
    \/ \E r \in OneRun, ok \in BOOLEAN : CreateSubprocess(r, ok)
    \/ \E r \in OneRun : Communicate(r)
    \/ \E r \in OneRun : ScriptTimeout(r)
    \/ \E r \in OneRun, x \in AcqIds : MainScript(r, x)
    \/ \E r \in OneRun, mid \in BOOLEAN : WorkerPreCheckBetween(r, mid)
    \/ \E r \in OneRun, ok \in BOOLEAN : SetupDriver(r, ok)
    \/ \E r \in OneRun, ok \in BOOLEAN : Login(r, ok)
    \/ \E r \in OneRun, ok \in BOOLEAN : NavigateToConsultation(r, ok)
    \/ \E r \in OneRun, ok \in BOOLEAN : SearchProcess(r, ok)
    \/ \E r \in OneRun, ok \in BOOLEAN : DownloadProcessDocument(r, ok)
    \/ \E r \in OneRun : SendSuccessWebhook(r)
    \/ \E r \in OneRun : ClientClose(r)
    \/ \E x \in AcqIds : CriarProcessoTeste(x)
    \/ \E x \in AcqIds : LimparProcessoTeste(x)
    \/ StorageFault

SpecBetween == InitBetween /\ [][NextBetween]_vars

(***************************************************************************)
(* One PJeClient driven through its four methods as main() drives it       *)
(***************************************************************************)
InitClient ==
    /\ cases = <<>>
    /\ files = {}
    /\ clock = 0
    /\ frames = [c \in Callers |-> IdleFrame]
    /\ runs = [r \in Runs |-> NoRun]
    /\ acquired = {}
    /\ call = NoCall
    /\ hook = "200"
    /\ store = [fault |-> FALSE, inst |-> FALSE]
    /\ client = NoClient

NextClient ==
    \/ \E x \in ClientIds, creds \in Credentials : ClientStart(x, creds)
    \/ ClientLogin
    \/ ClientNavigate
    \/ ClientSearch
    \/ ClientDownload

SpecClient == InitClient /\ [][NextClient]_vars

(***************************************************************************)
(* Acquire runs on identifiers that are blank or fail the parse            *)
(***************************************************************************)
InitMal ==
    /\ cases = <<>>
    /\ files = {}
    /\ clock = 0
    /\ frames = [c \in Callers |-> IdleFrame]
    /\ runs = [r \in Runs |-> NoRun]
    /\ acquired = {}
    /\ call = NoCall
    /\ hook = "200"
    /\ store = [fault |-> FALSE, inst |-> FALSE]
    /\ client = NoClient

NextMal ==
    \/ \E r \in Runs, x \in MalIds : BaixarProcesso(r, x)
    \/ \E r \in Runs, ok \in BOOLEAN : CreateSubprocess(r, ok)
    \/ \E r \in Runs : Communicate(r)
    \/ \E r \in Runs : ScriptTimeout(r)
    \/ \E r \in Runs, x \in MalIds : MainScript(r, x)
    \/ \E r \in Runs : WorkerPreCheck(r)
    \/ \E r \in Runs, ok \in BOOLEAN : SetupDriver(r, ok)
    \/ \E r \in Runs, ok \in BOOLEAN : Login(r, ok)
    \/ \E r \in Runs, ok \in BOOLEAN : NavigateToConsultation(r, ok)
    \/ \E r \in Runs, ok \in BOOLEAN : SearchProcess(r, ok)
    \/ \E x \in MalIds : CriarProcessoTeste(x)
    \/ \E x \in MalIds : LimparProcessoTeste(x)
    \/ Tick

SpecMal == InitMal /\ [][NextMal]_vars

(***************************************************************************)
(* Calls of parse_process_number on the arguments of ParseCalls            *)
(***************************************************************************)
InitParse ==
    /\ cases = <<>>
    /\ files = {}
    /\ clock = 0
    /\ frames = [c \in Callers |-> IdleFrame]
    /\ runs = [r \in Runs |-> NoRun]
    /\ acquired = {}
    /\ call = NoCall
    /\ hook = "200"
    /\ store = [fault |-> FALSE, inst |-> FALSE]
    /\ client = NoClient

NextParse ==
    \/ ParseCall
    \/ ParseReturn

SpecParse == InitParse /\ [][NextParse]_vars

(***************************************************************************)
(* The registry used by one caller at a time: every operation of           *)
(* CaseDatabase, one call after the other.                                 *)
(***************************************************************************)
InitSeq ==
    /\ cases = <<>>
    /\ files = {}
    /\ clock = 0
    /\ frames = [c \in Callers |-> IdleFrame]
    /\ runs = [r \in Runs |-> NoRun]
    /\ acquired = {}
    /\ call = NoCall
    /\ hook = "200"
    /\ store = [fault |-> FALSE, inst |-> FALSE]
    /\ client = NoClient

NextSeq ==
    \/ \E c \in SeqCallers, x \in IdArgs, f \in FileArgs, s \in StatusArgs :
          SaveBegin(c, x, f, s)
    \/ \E c \in SeqCallers : SaveInsert(c)
    \/ \E c \in SeqCallers, x \in IdArgs, s \in UpdStatusArgs :
          UpdateProcessingStatus(c, x, s)
    \/ \E c \in SeqCallers : GetAllCases(c)
    \/ Tick

SpecSeq == InitSeq /\ [][NextSeq]_vars

(***************************************************************************)
(* Acquire claims (Spec)                                                   *)
(***************************************************************************)
\* the outcome of the first pre-check of a run, and what that check met
FirstDec(r) == IF runs[r].entry = "api" THEN runs[r].sdec ELSE runs[r].wdec

FirstSeen(r) == IF runs[r].entry = "api" THEN runs[r].sseen ELSE runs[r].wseen

AllStates == <<"login", "consult", "search", "download">>

Sucessos(r) == {i \in DOMAIN runs[r].notes : runs[r].notes[i].status = "sucesso"}

\* C1: a run for X whose pre-check comes after a successful acquisition of
\* X, with no external change to registry or files since, takes the skip
\* path: it opens no browser session and acquires nothing.
C1_SkipAfterSuccess ==
    \A r \in Runs :
       runs[r].after =>
          /\ FirstDec(r) = "skip"
          /\ runs[r].session = "none"
          /\ runs[r].file = NoPath

\* C2: when a run that met no registry row for X dispatches a success
\* webhook for the artifact it acquired, the registry holds a row for X with
\* status completed and the file name of that artifact.
C2_RecordedBeforeSuccess ==
    \A r \in Runs :
       \A i \in Sucessos(r) :
          (FirstSeen(r) = "norec" /\ runs[r].file # NoPath) =>
             /\ runs[r].notes[i].reg.processing_status = "completed"
             /\ runs[r].notes[i].reg.file_name = Basename(runs[r].file)

\* C3: a run whose first pre-check meets a row for X and its file on disk
\* has finished with exactly one webhook, a success built from that row,
\* and has neither opened a browser session nor spawned a worker.
C3_SkipOnDuplicate ==
    \A r \in Runs :
       FirstSeen(r) = "recfile" =>
          /\ Finished(r)
          /\ Len(runs[r].notes) = 1
          /\ runs[r].notes[1].status = "sucesso"
          /\ runs[r].notes[1].arquivo =
                [dir |-> StorageDir, name |-> runs[r].notes[1].reg.file_name]
          /\ runs[r].session = "none"
          /\ runs[r].steps = <<>>
          /\ runs[r].entry = "api" => runs[r].wpc = "none"

\* C3 witness: an API run met the row and the file, and has finished.
C3_Witness ==
    \E r \in Runs :
       /\ runs[r].entry = "api"
       /\ runs[r].sseen = "recfile"
       /\ runs[r].spc = "done"
       /\ Len(runs[r].notes) = 1

\* C4: a pre-check skips exactly when it meets a row and its file; with no
\* row, or with a row whose file is missing, the run goes on to the
\* acquisition (the service spawns the worker, the worker sets up the
\* driver), the states run in order, and a worker that exits with status 0
\* without skipping has run all four.
C4_AcquireUnlessSkip ==
    \A r \in Runs :
       /\ runs[r].sdec # "none" =>
             /\ (runs[r].sdec = "skip") <=> (runs[r].sseen = "recfile")
             /\ runs[r].sseen \in {"norec", "rec"} =>
                   \/ runs[r].spc \in {"spawn", "wait"}
                   \/ runs[r].spc = "done" /\ runs[r].notes # <<>>
                                          /\ runs[r].notes[1].status # "sucesso"
                   \/ runs[r].spc = "done" /\ runs[r].wpc # "none"
       /\ runs[r].wdec # "none" =>
             /\ (runs[r].wdec = "skip") <=> (runs[r].wseen = "recfile")
             /\ runs[r].wseen \in {"norec", "rec"} =>
                   \/ runs[r].wpc = "setup"
                   \/ runs[r].stderr # ""
                   \/ runs[r].wpc = "killed"
       /\ (runs[r].session # "none" \/ runs[r].steps # <<>>) =>
             runs[r].wseen \in {"norec", "rec"}
       /\ \E n \in 0..4 : runs[r].steps = SubSeq(AllStates, 1, n)
       /\ (runs[r].wpc = "exited" /\ runs[r].rc = 0 /\ runs[r].wdec # "skip") =>
             runs[r].steps = AllStates

\* C4 witness: a worker met a row without its file and ran all four states.
C4_Witness ==
    \E r \in Runs :
       /\ runs[r].wseen = "rec"
       /\ runs[r].wdec = "restore"
       /\ runs[r].steps = AllStates
       /\ runs[r].wpc = "exited"

\* C5: a finished run has dispatched exactly one webhook, service and
\* worker counted together.
C5_OneNotification ==
    \A r \in Runs : Finished(r) => Len(runs[r].notes) = 1

\* C6: a finished run in which a state raised has dispatched exactly one
\* webhook, an error with a non-empty cause, and has saved no registry row.
C6_FailurePropagation ==
    \A r \in Runs :
       (Finished(r) /\ runs[r].fault # "none") =>
          /\ Len(runs[r].notes) = 1
          /\ runs[r].notes[1].status = "erro"
          /\ runs[r].notes[1].erro # ""
          /\ runs[r].saved = 0

\* C7: a success webhook belongs to a run that verified the existing file
\* on the skip path or wrote the artifact itself, and never to a run that
\* ended in a fault or was killed on the script timeout.
C7_SuccessOnlyIfAcquired ==
    \A r \in Runs :
       Sucessos(r) # {} =>
          /\ \/ "recfile" \in {runs[r].sseen, runs[r].wseen}
             \/ runs[r].file # NoPath
          /\ runs[r].fault = "none"
          /\ runs[r].wpc # "killed"

(***************************************************************************)
(* Registry claims (SpecReg)                                               *)
(***************************************************************************)
SaveDone(c) == frames[c].op = "save" /\ frames[c].pc = "done"

RowsOf(t, k) == {i \in DOMAIN t : t[i].case_number = k}

\* C8: no two rows share a case identifier; a save of an identifier that
\* already exists returns failure and changes nothing; exists(X) is true
\* after the save of X that succeeded and after the one that was rejected.
C8_UniqueIdempotent ==
    /\ \A i, j \in DOMAIN cases :
          cases[i].case_number = cases[j].case_number => i = j
    /\ \A c \in Callers :
          SaveDone(c) =>
             /\ frames[c].why = "ok" => CaseExists(cases, frames[c].x)
             /\ frames[c].why \in {"exists", "integrity"} =>
                   /\ ~frames[c].changed
                   /\ CaseExists(cases, frames[c].x)

\* C9: a save whose identifier or file name is empty or whitespace-only
\* has returned failure (nothing raised, no insert attempted) and has left
\* every row of the registry as it was.
C9_RejectsBlank ==
    \A c \in Callers :
       (/\ frames[c].op = "save"
        /\ (Strip(frames[c].x) = <<>> \/ Strip(frames[c].f) = <<>>)) =>
          /\ frames[c].pc = "done"
          /\ frames[c].why = "invalid"
          /\ ~frames[c].changed
          /\ \A i \in DOMAIN cases :
                cases[i].case_number # <<>> /\ cases[i].file_name # <<>>

\* C9 witness: with a row already stored, one caller was rejected for a
\* whitespace-only identifier and another for a blank file name.
C9_Witness ==
    /\ cases # <<>>
    /\ \E c1, c2 \in Callers :
          /\ SaveDone(c1) /\ frames[c1].why = "invalid" /\ frames[c1].x = <<" ">>
          /\ SaveDone(c2) /\ frames[c2].why = "invalid" /\ frames[c2].x = <<"a">>

\* C10: of two save calls for the same identifier, however their checks and
\* inserts interleave, at most one returns success, exactly one row holds
\* the identifier, and a call that returned failure changed nothing.
C10_ConcurrentSave ==
    \A c1, c2 \in Callers :
       (/\ c1 # c2
        /\ SaveDone(c1) /\ SaveDone(c2)
        /\ frames[c1].why # "invalid" /\ frames[c2].why # "invalid"
        /\ Strip(frames[c1].x) = Strip(frames[c2].x)) =>
          /\ ~(SaveReturned(c1) /\ SaveReturned(c2))
          /\ Cardinality(RowsOf(cases, Strip(frames[c1].x))) = 1
          /\ ~SaveReturned(c1) => ~frames[c1].changed

\* C10 witness: both calls passed the existence check for "a" before either
\* inserted; one insert committed, the other hit the UNIQUE constraint.
C10_Witness ==
    \E c1, c2 \in Callers :
       /\ c1 # c2
       /\ SaveDone(c1) /\ frames[c1].x = <<"a">> /\ frames[c1].why = "ok"
       /\ SaveDone(c2) /\ frames[c2].x = <<"a">> /\ frames[c2].why = "integrity"

\* C11: update_status(X, s) on an existing record returns true and a get(X)
\* that follows reports processing_status = s; on an identifier with no
\* record it returns false and leaves the registry as it was.
C11_StatusTransition ==
    \A c \in Callers :
        (frames[c].op = "update" /\ frames[c].pc = "done") =>
            /\ frames[c].had =>
                  UpdateReturned(c) /\ frames[c].got = frames[c].s
            /\ ~frames[c].had => ~UpdateReturned(c) /\ ~frames[c].changed

\* C11: an update that found its record and changed the status of it
C11_Witness ==
    \E c \in Callers :
        /\ frames[c].op = "update" /\ frames[c].pc = "done"
        /\ frames[c].had /\ frames[c].changed
        /\ frames[c].got = "processing"
        /\ Len(cases) = 2

\* C12: for every identifier of the form NNNNNNN-DD.YYYY.J.TR.OOOO the parse
\* returns exactly the segment before the hyphen as sequential and the
\* first, second and fifth period-separated segments after it as digit,
\* year and court.
C12_ParsesCanonical ==
    (/\ call.pc \in {"ret", "raise"}
     /\ call.seps = CanonicalSeps
     /\ \A i \in DOMAIN call.segs : call.segs[i] = "digits") =>
        call.out = [ok |-> TRUE,
                    sequential |-> SegText("digits", 1),
                    digit |-> SegText("digits", 2),
                    year |-> SegText("digits", 3),
                    court |-> SegText("digits", 6)]

\* C12: the parse of a well-formed identifier has returned
C12_Witness ==
    /\ call.pc = "ret"
    /\ call.seps = CanonicalSeps
    /\ \A i \in DOMAIN call.segs : call.segs[i] = "digits"
    /\ call.out.court = <<"6", "0">>

\* C13: the parse returns a result only when the normalized input has the
\* shape sequential-digit.year.x.y.court and every extracted component is
\* non-empty; every other input ends in ValueError.
C13_RejectsMalformed ==
    call.pc = "ret" =>
        /\ Len(Split(CleanNumber(call.arg), "-")) = 2
        /\ call.out.sequential # <<>>
        /\ call.out.digit # <<>>
        /\ call.out.year # <<>>
        /\ call.out.court # <<>>

\* C14: when the case identifier fails the structural parse, the run fails
\* without having opened the login page, submitted credentials, navigated or
\* written a form field.
C14_FailFastParse ==
    \A r \in Runs :
        (runs[r].entry # "none" /\ ~ParseProcessNumber(runs[r].x).ok) =>
            /\ runs[r].session = "none"
            /\ runs[r].steps = <<>>

\* C15: acquire with an identifier that is empty after trimming fails at
\* once with a validation error: no registry lookup, no browser session and
\* no worker script is started for it, on the HTTP route and on the script.
C15_EmptyIdRejected ==
    \A r \in Runs :
        (runs[r].entry # "none" /\ Strip(runs[r].x) = <<>>) =>
            /\ runs[r].lookups = 0
            /\ runs[r].session = "none"
            /\ runs[r].entry = "api" => runs[r].wpc = "none"
            /\ runs[r].entry = "script" => runs[r].wpc \in {"precheck", "exited"}

\* the worker reached the end of its work: a duplicate, or the document
\* downloaded with no state having raised
WorkerSucceeded(r) ==
    \/ runs[r].wdec = "skip"
    \/ runs[r].fault = "none" /\ runs[r].file # NoPath

\* C16: a non-2xx answer or a transport fault on a notification is never
\* raised to the caller, the notification is one outbound call, and neither
\* the worker's exit status nor the success or failure that the run reports
\* depends on it.
C16_BestEffortNotify ==
    \A r \in Runs :
        /\ \A i \in DOMAIN runs[r].notes :
              /\ runs[r].notes[i].sent.outcome # "raised"
              /\ runs[r].notes[i].sent.posts = 1
        /\ runs[r].wpc = "exited" => (runs[r].rc = 0 <=> WorkerSucceeded(r))
        /\ \A i \in DOMAIN runs[r].notes :
              runs[r].notes[i].by = "worker" =>
                 (runs[r].notes[i].status = "sucesso" <=> WorkerSucceeded(r))
        /\ (runs[r].entry = "api" /\ runs[r].spc = "done"
             /\ runs[r].wpc = "exited") =>
               (runs[r].notes[Len(runs[r].notes)].status = "sucesso"
                   <=> (/\ runs[r].rc = 0
                        /\ ExtrairCaminhoArquivo(runs[r].stdout) # NoPath))

\* C16: a worker whose success webhook met a transport fault and whose
\* error-free run still exited with status 0, reported as success by the
\* service although that webhook was answered 500
C16_Witness ==
    \E r \in Runs :
        /\ runs[r].entry = "api" /\ runs[r].spc = "done"
        /\ runs[r].rc = 0 /\ runs[r].file # NoPath
        /\ Len(runs[r].notes) = 2
        /\ runs[r].notes[1].hook = "fault"
        /\ runs[r].notes[2].hook = "500"
        /\ runs[r].notes[2].status = "sucesso"

\* C18: a run whose registry lookup at the start met a storage fault is not
\* aborted; it goes on to the full acquisition as if no record existed, and
\* no error notification is sent because of the registry fault alone.
C18_LookupFaultTolerated ==
    \A r \in Runs :
        runs[r].hit =>
            /\ runs[r].sdec \in {"none", "new"}
            /\ runs[r].wdec \in {"none", "new"}
            /\ \A i \in DOMAIN runs[r].notes :
                  runs[r].notes[i].erro \notin
                      {DatabaseError, UnexpectedDatabaseError}

\* C17: no registry operation, called on an instance or through the module
\* functions that obtain the shared instance, lets a storage fault reach its
\* caller as an exception; each returns false, none or an empty list.
C17_NoStorageException ==
    \A c \in Callers :
        (frames[c].pc = "done" /\ frames[c].op \in RegistryOps) =>
            /\ frames[c].ret # "raised"
            /\ frames[c].why = "fault" =>
                  /\ frames[c].ret \in {"false", "none", "empty"}
                  /\ ~frames[c].changed

\* C19: the file name of the stored artifact is a function of the case
\* identifier alone: two runs for the same identifier write the same file
\* name whenever they run, and the name does not depend on the clock.
C19_NameFromIdentifier ==
    \A r1, r2 \in DOMAIN runs :
        (/\ runs[r1].file # NoPath /\ runs[r2].file # NoPath
         /\ runs[r1].x = runs[r2].x) =>
            runs[r1].file.name = runs[r2].file.name

\* C20: artifacts of distinct case identifiers are never written to the same
\* file: two runs on X # Y, side by side or one after the other, write
\* different file names.
C20_DistinctIdsDistinctFiles ==
    \A r1, r2 \in DOMAIN runs :
        (/\ runs[r1].file # NoPath /\ runs[r2].file # NoPath
         /\ runs[r1].x # runs[r2].x) =>
            runs[r1].file # runs[r2].file

\* C21: every run that opened a browser session has quit it by the time the
\* run is reported finished: on success, on a fault at any state, and when
\* the service's script timeout ends the run by killing the worker.
C21_SessionReleased ==
    \A r \in Runs : Finished(r) => runs[r].session # "open"

\* C22: of two acquire runs on the same identifier that are under way at
\* the same time and both started when it had no registry record, at most
\* one completes a browser acquisition that is reported with a success
\* notification.
C22_OneConcurrentAcquisition ==
    \A r1, r2 \in DOMAIN runs :
        (/\ r1 # r2
         /\ runs[r1].x = runs[r2].x
         /\ runs[r1].wseen = "norec" /\ runs[r2].wseen = "norec"
         /\ runs[r1].wpc \notin {"none", "exited", "killed"}
         /\ runs[r2].wpc \notin {"none", "exited", "killed"}) =>
            ~(/\ runs[r1].file # NoPath /\ runs[r2].file # NoPath
              /\ \E i \in DOMAIN runs[r1].notes :
                    runs[r1].notes[i].status = "sucesso"
              /\ \E i \in DOMAIN runs[r2].notes :
                    runs[r2].notes[i].status = "sucesso")

\* C24: within one run the states execute in the order login, consultation,
\* search, document acquisition, each entered at most once; after a fault in
\* a state no later state is executed and the run ends failed.
C24_FixedOrderNoRetry ==
    \A r \in Runs :
        /\ Len(runs[r].steps) <= Len(AllStates)
        /\ runs[r].steps = SubSeq(AllStates, 1, Len(runs[r].steps))
        /\ runs[r].fault # "none" =>
              /\ runs[r].steps[Len(runs[r].steps)] = runs[r].fault
              /\ runs[r].wpc = "exited" /\ runs[r].rc = 1
              /\ \E i \in DOMAIN runs[r].notes :
                    /\ runs[r].notes[i].by = "worker"
                    /\ runs[r].notes[i].status = "erro"
                    /\ runs[r].notes[i].erro = FaultCause(runs[r].fault)
              /\ Sucessos(r) = {}

\* C24: a run that entered login, consultation and search in turn and ended
\* on a fault of the search
C24_Witness ==
    \E r \in Runs :
        /\ runs[r].steps = <<"login", "consult", "search">>
        /\ runs[r].fault = "search"
        /\ runs[r].wpc = "exited"

\* C23: list_all returns every record exactly once, the most recently
\* acquired first, and an empty sequence for an empty registry.
C23_ListAllOrder ==
    \A c \in Callers :
        (frames[c].op = "list_all" /\ frames[c].pc = "done") =>
            LET l == frames[c].rows
            IN  /\ Len(l) = Len(cases)
                /\ \A i \in DOMAIN cases :
                      Cardinality({j \in DOMAIN l : l[j] = cases[i]}) = 1
                /\ \A i, j \in DOMAIN l :
                      i < j => l[i].download_date >= l[j].download_date
                /\ cases = <<>> => l = <<>>

\* C23: a listing of two records saved at different times, the later first
C23_Witness ==
    \E c \in Callers :
        /\ frames[c].op = "list_all" /\ frames[c].pc = "done"
        /\ Len(frames[c].rows) = 2
        /\ frames[c].rows[1].download_date > frames[c].rows[2].download_date
        /\ frames[c].rows[1].id = 2

(***************************************************************************)
(* Claims about the client's four methods                                  *)
(***************************************************************************)
ErrorKinds ==
    {"LoginError", "NavigationError", "ProcessNotFoundError", "DownloadError"}

\* how often the browser operation o was performed
Performed(o) == Cardinality({i \in DOMAIN client.ops : client.ops[i] = o})

\* login() has been called and has ended
LoginEnded == client.pc \notin {"none", "login"}

\* login() returned True
LoginSucceeded == LoginEnded /\ ~(client.from = "login" /\ client.raised # "")

\* C25: every fault that leaves login, navigate_to_consultation,
\* search_process or download_process_document is a LoginError, a
\* NavigationError, a ProcessNotFoundError or a DownloadError that carries a
\* cause, whichever underlying operation failed.
C25_FaultsWrapped ==
    client.raised # "" =>
        client.raised \in ErrorKinds /\ client.cause # ""

\* C27: once the credentials were submitted and the page was read in the
\* top-level context, login succeeds exactly when a post-login marker is in
\* the page; with no marker it ends in a LoginError, the login page was
\* opened once and no later state was executed.
C27_LoginIffMarker ==
    (LoginEnded /\ Performed("read:page") > 0) =>
        /\ LoginSucceeded <=> client.login.marker
        /\ ~client.login.marker =>
              /\ client.raised = "LoginError"
              /\ client.pc = "raised"
              /\ Performed("get:login") = 1
              /\ Performed("get:consult") = 0

\* C28: with the username or the password absent the run fails with a
\* configuration fault before any remote interaction: when the fault is
\* raised no browser operation has been performed.
C28_CredentialsBeforeRemote ==
    (LoginEnded /\ (~client.creds.username \/ ~client.creds.password)) =>
        /\ client.from = "login"
        /\ client.raised = "ValueError"
        /\ client.ops = <<>>

\* download_process_document() has been called and has ended
DownloadEnded == client.from = "download"

\* C26: when no results link for the identifier is found, or no new browser
\* context appears after the click, the error surfaced to the caller is a
\* ProcessNotFoundError and the download menu is never opened.
C26_NotFoundSurfaced ==
    (DownloadEnded /\ (~client.link \/ ~client.newtab)) =>
        /\ client.raised = "ProcessNotFoundError"
        /\ Performed("click:dropdown") = 0

\* C29: after a successful retrieval the viewer context is closed, the
\* active context is the document tab that was active when the download was
\* triggered, and the open contexts are those held before the viewer opened.
C29_BackOnDocumentTab ==
    (DownloadEnded /\ client.pc = "returned") =>
        /\ \A i \in DOMAIN client.handles : client.handles[i] # "viewer"
        /\ client.active = "process"
        /\ client.handles = client.before

\* the address holds the trusted document-host pattern
Trusted(url) == \E i \in DOMAIN url : url[i] = PdfUrlPattern

\* C30: every address the binary was fetched from had been read from the
\* new context and matched the trusted pattern; when no address read from
\* the new context matches, nothing is fetched, no file is written and the
\* step ends in a download failure after the last pass of the polling loop.
C30_FetchOnlyTrusted ==
    /\ \A i \in DOMAIN client.fetched :
          /\ Trusted(client.fetched[i])
          /\ \E j \in DOMAIN client.checked :
                client.checked[j] = client.fetched[i]
    /\ (/\ DownloadEnded
        /\ client.checked # <<>>
        /\ \A j \in DOMAIN client.checked : ~Trusted(client.checked[j])) =>
            /\ client.fetched = <<>>
            /\ ~client.written
            /\ client.raised = "DownloadError"
            /\ client.cause = "Failed to download PDF file"
            /\ Len(client.checked) = MaxPolls

\* C30: a new context opened on the click, its address never matched the
\* pattern in any pass and the step failed with nothing fetched
C30_Witness ==
    /\ DownloadEnded
    /\ Len(client.checked) = MaxPolls
    /\ \A j \in DOMAIN client.checked : ~Trusted(client.checked[j])
    /\ client.active = "viewer"
    /\ client.fetched = <<>>
    /\ client.raised = "DownloadError"

\* download_process_document() got as far as _click_download_button
ButtonStepReached == DownloadEnded /\ client.at \in {"button", "pdf", "done"}

\* C31: the download is triggered exactly when the element with the stable
\* identifier exists or some control matches the fallback; the identifier
\* has priority, one control is activated, and with neither the step ends
\* in a DownloadError and the retrieval is not entered.
C31_DownloadButtonLocated ==
    ButtonStepReached =>
        /\ Performed("click:download") = 1 <=>
              (client.byid \/ client.byvalue > 0)
        /\ Len(client.clicked) <= 1
        /\ client.byid => client.clicked = <<ById>>
        /\ (~client.byid /\ client.byvalue > 0) =>
              client.clicked = <<ByValue(0)>>
        /\ (~client.byid /\ client.byvalue = 0) =>
              /\ client.clicked = <<>>
              /\ client.raised = "DownloadError"
              /\ client.cause = "Failed to click download button"
              /\ client.at = "button"
              /\ client.checked = <<>> /\ client.fetched = <<>>
              /\ ~client.written

\* C31: the page held the element with the identifier and two inputs that
\* match the fallback, and the download went through
C31_Witness ==
    /\ ButtonStepReached
    /\ client.byid /\ client.byvalue = 2
    /\ client.clicked = <<ById>>
    /\ client.pc = "returned"

(***************************************************************************)
(* Claims about the notifications and the pre-checks of one run            *)
(***************************************************************************)
\* the statuses of the notifications dispatched for run r so far
Statuses(r) == {runs[r].notes[i].status : i \in DOMAIN runs[r].notes}

\* C38: for one run the worker and the service never dispatch one
\* notification with status sucesso and one with status erro, however the
\* worker ends.
C38_NoContradictoryStatuses ==
    \A r \in Runs : ~({"sucesso", "erro"} \subseteq Statuses(r))

\* C37: the pre-check of the service and the pre-check of the worker reach
\* the same decision, skip or run, on the same registry state and file
\* presence, and a run that the service did not skip is never skipped by
\* the worker it spawned.
C37_PreChecksEquivalent ==
    \A r \in Runs :
        (runs[r].entry = "api" /\ runs[r].wdec # "none") =>
            /\ (runs[r].sseen = runs[r].wseen /\ ~runs[r].hit) =>
                  (runs[r].sdec = "skip" <=> runs[r].wdec = "skip")
            /\ runs[r].wdec # "skip"

\* C39: when case_exists answers true and get_case_info returns no record,
\* the pre-check neither skips nor fails: the service goes on to start the
\* worker, the worker goes on to start the browser, and the step dispatches
\* no notification.
C39_InconsistentProceeds ==
    [][\A r \in Runs :
          /\ (/\ Fresh(r) /\ runs'[r] # runs[r]
              /\ runs'[r].entry = "api"
              /\ CaseExists(cases, runs'[r].x)
              /\ ~store.fault /\ store'.fault) =>
                 /\ runs'[r].sdec = "inconsistent"
                 /\ runs'[r].spc = "spawn"
                 /\ runs'[r].notes = <<>>
          /\ (/\ runs[r].wpc = "precheck" /\ runs'[r].wpc # "precheck"
              /\ CaseExists(cases, runs[r].x)
              /\ ~store.fault /\ store'.fault) =>
                 /\ runs'[r].wdec = "inconsistent"
                 /\ runs'[r].wpc = "setup"
                 /\ runs'[r].notes = runs[r].notes]_vars

\* C39: a run whose service pre-check and whose worker pre-check both found
\* the record without its info, and whose worker has started the browser
C39_Witness ==
    \E r \in Runs :
        /\ runs[r].entry = "api"
        /\ runs[r].sdec = "inconsistent"
        /\ runs[r].wdec = "inconsistent"
        /\ runs[r].session = "open"

(***************************************************************************)
(* Claims about the records of the registry                                *)
(***************************************************************************)
\* the columns of a record that identify it
Identity(row) ==
    [id |-> row.id, case_number |-> row.case_number,
     file_name |-> row.file_name, download_date |-> row.download_date,
     created_at |-> row.created_at]

\* C33: no registry operation removes a record or changes the
\* case_number, file_name, download_date or created_at of one; a record
\* changes only in processing_status and updated_at, and only by an
\* update_processing_status called with its case_number.
C33_AppendOnce ==
    [][/\ Len(cases') >= Len(cases)
       /\ \A i \in DOMAIN cases :
             /\ Identity(cases'[i]) = Identity(cases[i])
             /\ cases'[i] # cases[i] =>
                   \E c \in Callers :
                      /\ frames'[c].op = "update" /\ frames'[c].pc = "done"
                      /\ frames'[c].x = cases[i].case_number]_vars

\* C33: two records, one as it was saved and one whose status an update
\* changed at a later time
C33_Witness ==
    /\ Len(cases) = 2
    /\ \E c \in Callers : frames[c].op = "update" /\ frames[c].changed
    /\ \E i, j \in DOMAIN cases :
          /\ cases[i].updated_at # cases[i].created_at
          /\ cases[i].processing_status = "pending"
          /\ cases[j].updated_at = cases[j].created_at
          /\ cases[j].processing_status = "completed"

\* C34: every stored record has a case_number that is trimmed and not
\* empty and a file_name that is not empty, whatever was passed to
\* save_case_record.
C34_StoredTrimmed ==
    \A i \in DOMAIN cases :
        /\ cases[i].case_number # <<>>
        /\ cases[i].case_number = Strip(cases[i].case_number)
        /\ cases[i].file_name # <<>>

\* C34: a save that was passed a padded identifier and a padded file name
\* and stored its record
C34_Witness ==
    \E c \in Callers :
        /\ SaveDone(c) /\ SaveReturned(c)
        /\ frames[c].x = <<" ", "a">> /\ frames[c].f = <<"f", " ">>
        /\ \E i \in DOMAIN cases :
              /\ cases[i].case_number = <<"a">>
              /\ cases[i].file_name = <<"f">>

\* C35: after a save_case_record(X, f) that was accepted, with X or f
\* padded or not, case_exists(X) is true and get_case_info(X) returns the
\* record with that identifier, that file name and the status completed.
C35_SaveLookupRoundTrip ==
    \A c \in SeqCallers :
        (SaveDone(c) /\ SaveReturned(c)) =>
            /\ CaseExists(cases, frames[c].x)
            /\ LET info == GetCaseInfo(cases, frames[c].x)
               IN  /\ info # NoneRow
                   /\ info.case_number = Strip(frames[c].x)
                   /\ info.file_name = Strip(frames[c].f)
                   /\ info.processing_status = "completed"

\* C36: update_processing_status(X, s) on an existing record accepts any
\* s that is not empty, in the enumeration or not, and rejects the empty s:
\* it returns false and leaves status and updated_at of the record alone.
C36_EmptyStatusRejected ==
    \A c \in SeqCallers :
        (frames[c].op = "update" /\ frames[c].pc = "done" /\ frames[c].had) =>
            /\ frames[c].s # "" =>
                  UpdateReturned(c) /\ frames[c].got = frames[c].s
            /\ frames[c].s = "" =>
                  ~UpdateReturned(c) /\ ~frames[c].changed

====
